---- MODULE Spec2Model ----
(***************************************************************************)
(* ShieldClaw monitor: the monitoring daemon (pro/monitor/monitor.py,      *)
(* SecurityMonitor) and the drift CLI (pro/monitor/drift_detector.py,      *)
(* DriftDetector) working on one SQLite store and one file system, and the *)
(* alert system (pro/monitor/alerts.py, AlertSystem).                      *)
(*                                                                         *)
(* The store is modelled as its three tables in their committed state.  An *)
(* operation is the sequence of SQL statements it executes; what it leaves  *)
(* in the store when it ends early is what was committed by then.           *)
(***************************************************************************)
EXTENDS Integers, Sequences, FiniteSets, TLC

VARIABLES
    fs,               \* file system: path -> [exists, mode, content]
    logs,             \* log files: path -> [exists, lines]
    config_history,   \* table config_history (committed rows, in id order)
    security_events,  \* table security_events (committed rows, in id order)
    drift_alerts,     \* table drift_alerts (committed rows, in id order)
    db_open,          \* the daemon's connection is open
    baseline_hashes,  \* SecurityMonitor.baseline_hashes
    pc,               \* position of monitor_loop
    sub,              \* PUBLISH: position inside the with block
    drifts,           \* monitor_loop: the local `drifts` (the files reported)
    metrics,          \* monitor_loop: the local `metrics`
    snapshot,         \* content of web/metrics.json
    now,              \* wall clock (ticks)
    cycle,            \* number of loop iterations started
    used,             \* how much of each environment budget is used
    lastOp            \* the command or call that has just returned, with its result

vars == <<fs, logs, config_history, security_events, drift_alerts, db_open,
          baseline_hashes, pc, sub, drifts, metrics, snapshot, now, cycle, used,
          lastOp>>

----------------------------------------------------------------------------
(* Bounds of the model *)

MaxCycles == 2
MaxFsChanges == 1
MaxCliOps == 2
MaxFaults == 1
MaxRestarts == 1

----------------------------------------------------------------------------
(* Files and their contents *)

monitored_files == <<"openclaw.json", "SOUL.md", ".env">>

Files == {monitored_files[i] : i \in 1..Len(monitored_files)}

None == <<>>

DocAuthOn == "{\"auth\":{\"enabled\":true}}"
DocAuthOff == "{\"auth\":{\"enabled\":false}}"

\* documents with the flags run_audit reads, and one that is not JSON
DocSecure ==
    "{\"security\":{\"authentication\":{\"enabled\":true},\"prompt_injection_defense\":{\"enabled\":true}}}"
DocAuthOnly ==
    "{\"security\":{\"authentication\":{\"enabled\":true},\"prompt_injection_defense\":{\"enabled\":false}}}"
DocBroken == "{\"security\":"

JsonContents == {DocAuthOn, DocAuthOff, DocBroken}
TextContents == {"text v1", "text v2"}

endswith_json(filepath) == filepath = "openclaw.json"

ContentsOf(filepath) == IF endswith_json(filepath) THEN JsonContents ELSE TextContents

InitialContent(filepath) == IF endswith_json(filepath) THEN DocAuthOn ELSE "text v1"

Modes == {"600", "644", "000"}

Absent == [exists |-> FALSE, mode |-> "000", content |-> ""]

exists(filepath) == fs[filepath].exists

\* open(filepath) succeeds for the daemon's user iff the owner may read
Readable(filepath) == fs[filepath].exists /\ fs[filepath].mode # "000"

\* hashlib.sha256(bytes).hexdigest(): injective on the contents of the model
sha256(content) == <<"sha256", content>>

calculate_file_hash(filepath) ==
    IF Readable(filepath) THEN sha256(fs[filepath].content) ELSE None

\* (variant, for sensitivity) a file that cannot be read hashes as an empty file
calculate_hash_of_nothing(filepath) ==
    IF Readable(filepath) THEN sha256(fs[filepath].content) ELSE sha256("")

calculate_hash(filepath) ==
    IF Readable(filepath) THEN sha256(fs[filepath].content) ELSE None

\* Python truthiness of an Optional[str]
Truthy(h) == h # None

----------------------------------------------------------------------------
(* Structured documents (json.load / json.loads)                            *)
(* A value is a scalar or a dict; a dict keeps its keys in document order.  *)

Scalar(v) == [t |-> "scalar", v |-> v]

Dict(keys, get) == [t |-> "dict", keys |-> keys, get |-> get]

isinstance_dict(x) == x.t = "dict"

ParseError == [t |-> "error"]

\* json.load of a file content
json_load(content) ==
    CASE content = DocAuthOn ->
             Dict(<<"auth">>, "auth" :> Dict(<<"enabled">>, "enabled" :> Scalar("true")))
      [] content = DocAuthOff ->
             Dict(<<"auth">>, "auth" :> Dict(<<"enabled">>, "enabled" :> Scalar("false")))
      [] content = DocSecure ->
             Dict(<<"security">>, "security" :>
                 Dict(<<"authentication", "prompt_injection_defense">>,
                      "authentication" :> Dict(<<"enabled">>, "enabled" :> Scalar("true"))
                      @@ "prompt_injection_defense" :>
                             Dict(<<"enabled">>, "enabled" :> Scalar("true"))))
      [] content = DocAuthOnly ->
             Dict(<<"security">>, "security" :>
                 Dict(<<"authentication", "prompt_injection_defense">>,
                      "authentication" :> Dict(<<"enabled">>, "enabled" :> Scalar("true"))
                      @@ "prompt_injection_defense" :>
                             Dict(<<"enabled">>, "enabled" :> Scalar("false"))))
      [] OTHER -> ParseError

KeyIn(key, d) == \E i \in 1..Len(d.keys) : d.keys[i] = key

\* f'{path}.{key}' if path else key
current_path(path, key) == IF path # "" THEN path \o "." \o key ELSE key

\* float('nan'), which json.load returns for the literal NaN
NaN == Scalar("NaN")

\* (variant, for sensitivity) inequality of the documents as texts
py_ne_textual(a, b) == a # b

\* a != b on values json.load returns: a float NaN differs from every value,
\* itself included; a dict and a scalar always differ
py_ne(a, b) == a # b \/ a = NaN

RECURSIVE compare_dicts(_, _, _)
RECURSIVE compare_baseline_keys(_, _, _, _)
RECURSIVE compare_current_keys(_, _, _, _)

\* the loop `for key in baseline` from its i-th key on
compare_baseline_keys(baseline, current, path, i) ==
    IF i > Len(baseline.keys) THEN <<>>
    ELSE LET key == baseline.keys[i]
             here ==
                 IF ~KeyIn(key, current)
                 THEN <<[type |-> "removed", path |-> current_path(path, key),
                         old_value |-> baseline.get[key]]>>
                 ELSE IF isinstance_dict(baseline.get[key]) /\ isinstance_dict(current.get[key])
                 THEN compare_dicts(baseline.get[key], current.get[key], current_path(path, key))
                 ELSE IF py_ne(baseline.get[key], current.get[key])
                 THEN <<[type |-> "modified", path |-> current_path(path, key),
                         old_value |-> baseline.get[key],
                         new_value |-> current.get[key]]>>
                 ELSE <<>>
         IN  here \o compare_baseline_keys(baseline, current, path, i + 1)

\* (variant, for sensitivity) a new key is reported only when its value is not a dict
compare_current_keys_scalars_only(baseline, current, path, i) ==
    IF i > Len(current.keys) THEN <<>>
    ELSE LET key == current.keys[i]
             here ==
                 IF ~KeyIn(key, baseline) /\ ~isinstance_dict(current.get[key])
                 THEN <<[type |-> "added", path |-> current_path(path, key),
                         new_value |-> current.get[key]]>>
                 ELSE <<>>
         IN  here \o compare_current_keys(baseline, current, path, i + 1)

\* (variant, for sensitivity) a new key whose value is a dict is reported key by key
compare_current_keys_expanding(baseline, current, path, i) ==
    IF i > Len(current.keys) THEN <<>>
    ELSE LET key == current.keys[i]
             here ==
                 IF KeyIn(key, baseline) THEN <<>>
                 ELSE IF isinstance_dict(current.get[key])
                 THEN compare_dicts(Dict(<<>>, <<>>), current.get[key],
                                    current_path(path, key))
                 ELSE <<[type |-> "added", path |-> current_path(path, key),
                         new_value |-> current.get[key]]>>
         IN  here \o compare_current_keys(baseline, current, path, i + 1)

\* the loop `for key in current` from its i-th key on
compare_current_keys(baseline, current, path, i) ==
    IF i > Len(current.keys) THEN <<>>
    ELSE LET key == current.keys[i]
             here ==
                 IF ~KeyIn(key, baseline)
                 THEN <<[type |-> "added", path |-> current_path(path, key),
                         new_value |-> current.get[key]]>>
                 ELSE <<>>
         IN  here \o compare_current_keys(baseline, current, path, i + 1)

\* DriftDetector._compare_dicts
compare_dicts(baseline, current, path) ==
    compare_baseline_keys(baseline, current, path, 1)
        \o compare_current_keys(baseline, current, path, 1)

----------------------------------------------------------------------------
(* The store: schema and queries *)

\* the columns CREATE TABLE config_history declares
ConfigHistoryColumns == {"id", "timestamp", "file_path", "hash", "change_type", "alert_sent"}

ConfigRow(ts, filepath, h, change_type) ==
    [timestamp |-> ts, file_path |-> filepath, hash |-> h,
     change_type |-> change_type, alert_sent |-> FALSE]

\* ... WHERE file_path = ? AND change_type = 'baseline' ORDER BY timestamp DESC LIMIT 1
\* (the index of the row, 0 when the query returns nothing).  utcnow() has a
\* microsecond resolution and the clock of the model a coarser one: of two rows
\* written in the same tick the one inserted later has the later timestamp
LatestBaselineRow(filepath) ==
    LET S == {i \in 1..Len(config_history) :
                 /\ config_history[i].file_path = filepath
                 /\ config_history[i].change_type = "baseline"}
    IN  IF S = {} THEN 0
        ELSE CHOOSE i \in S :
                 \A j \in S :
                     \/ config_history[j].timestamp < config_history[i].timestamp
                     \/ config_history[j].timestamp = config_history[i].timestamp /\ j <= i

\* DriftDetector.get_baseline_hash
get_baseline_hash(filepath) ==
    LET i == LatestBaselineRow(filepath)
    IN  IF i = 0 THEN None ELSE config_history[i].hash

\* DriftDetector.detect_json_drift: every exception becomes {'error': ...}
detect_json_drift(filepath) ==
    IF ~Readable(filepath) THEN [error |-> "open"]
    ELSE LET current == json_load(fs[filepath].content)
             i == LatestBaselineRow(filepath)
         IN  IF current = ParseError THEN [error |-> "json"]
             ELSE IF "metadata" \notin ConfigHistoryColumns
             THEN [error |-> "no such column: metadata"]
             ELSE IF i = 0 THEN [error |-> "No baseline found"]
             ELSE LET baseline == json_load(config_history[i].metadata)
                      changes == compare_dicts(baseline, current, "")
                  IN  IF baseline = ParseError THEN [error |-> "json"]
                      ELSE [has_drift |-> Len(changes) > 0, changes |-> changes,
                            filepath |-> filepath]

\* drift_info.get('changes', [])
get_changes(drift_info) ==
    IF "changes" \in DOMAIN drift_info THEN drift_info.changes ELSE <<>>

\* (variant, for sensitivity) a file whose structured diff failed is reported as an
\* error and not as a drift
scan_detail_diff_error(filepath) ==
    LET baseline_hash == get_baseline_hash(filepath)
        current_hash == calculate_hash(filepath)
    IN  IF ~exists(filepath)
        THEN [filepath |-> filepath, status |-> "missing"]
        ELSE IF ~Truthy(baseline_hash)
        THEN [filepath |-> filepath, status |-> "no_baseline"]
        ELSE IF baseline_hash # current_hash
        THEN IF endswith_json(filepath) /\ "error" \in DOMAIN detect_json_drift(filepath)
             THEN [filepath |-> filepath, status |-> "error"]
             ELSE [filepath |-> filepath, status |-> "drift_detected",
                   baseline_hash |-> baseline_hash, current_hash |-> current_hash]
        ELSE [filepath |-> filepath, status |-> "ok"]

\* DriftDetector.scan_all_monitored_files: the entry of results['details'] for one file
scan_detail(filepath) ==
    LET baseline_hash == get_baseline_hash(filepath)
        current_hash == calculate_hash(filepath)
    IN  IF ~exists(filepath)
        THEN [filepath |-> filepath, status |-> "missing"]
        ELSE IF ~Truthy(baseline_hash)
        THEN [filepath |-> filepath, status |-> "no_baseline"]
        ELSE IF baseline_hash # current_hash
        THEN IF endswith_json(filepath)
             THEN [filepath |-> filepath, status |-> "drift_detected",
                   baseline_hash |-> baseline_hash, current_hash |-> current_hash,
                   changes |-> get_changes(detect_json_drift(filepath))]
             ELSE [filepath |-> filepath, status |-> "drift_detected",
                   baseline_hash |-> baseline_hash, current_hash |-> current_hash]
        ELSE [filepath |-> filepath, status |-> "ok"]

scan_all_monitored_files(files) ==
    LET details == [i \in 1..Len(files) |-> scan_detail(files[i])]
    IN  [total_files |-> Len(files),
         files_with_drift |->
             Cardinality({i \in 1..Len(files) : details[i].status = "drift_detected"}),
         details |-> details]

----------------------------------------------------------------------------
(* Time *)

\* resolution of the clock: ticks in 24 hours
TicksPerDay == 4

\* CHECK_INTERVAL, in ticks
SleepTicks == 1

\* datetime.utcnow().isoformat(): 'YYYY-MM-DDTHH:MM:SS.ffffff'
isoformat(t) == [date |-> t \div TicksPerDay, sep |-> "T", time |-> t % TicksPerDay]

\* SQLite datetime('now', '-24 hours'): 'YYYY-MM-DD HH:MM:SS'
sqlite_datetime_minus_24h(t) ==
    [date |-> (t - TicksPerDay) \div TicksPerDay, sep |-> " ", time |-> t % TicksPerDay]

\* SQLite compares the two TEXT values character by character: the dates first,
\* then the separator ('T' sorts after ' '), then the time of day
text_greater(a, b) ==
    \/ a.date > b.date
    \/ a.date = b.date /\ a.sep = "T" /\ b.sep = " "
    \/ a.date = b.date /\ a.sep = b.sep /\ a.time > b.time

----------------------------------------------------------------------------
(* Log lines and the injection patterns *)

\* A line is a sequence of words, each lower-case or not; str.lower() clears the flag
Word(w, upper) == [w |-> w, upper |-> upper]

\* (variant, for sensitivity) the line is matched as it is written
lower_as_written(line) == line

\* line.lower()
lower(line) == [i \in 1..Len(line) |-> Word(line[i].w, FALSE)]

Lc(ws) == [i \in 1..Len(ws) |-> Word(ws[i], FALSE)]

injection_patterns == <<
    Lc(<<"ignore", "previous", "instructions">>),
    Lc(<<"disregard", "all", "previous">>),
    Lc(<<"you", "are", "now">>),
    Lc(<<"new", "instructions">>),
    Lc(<<"system", "prompt">>),
    Lc(<<"forget", "everything">>),
    Lc(<<"developer", "mode">>),
    Lc(<<"jailbreak">>) >>

\* `pattern in line_lower`
contains(line, pattern) ==
    \E k \in 0..(Len(line) - Len(pattern)) :
        \A i \in 1..Len(pattern) : line[k + i] = pattern[i]

\* [:200]: the length of an excerpt, in units of a line (a unit is a word)
ExcerptLimit == 200

LineBenign == Lc(<<"request", "served">>)
LineInject ==
    <<Word("please", FALSE), Word("ignore", TRUE), Word("previous", TRUE),
      Word("instructions", TRUE)>>
LineDouble == Lc(<<"you", "are", "now", "in", "developer", "mode">>)


\* a line longer than an excerpt: a phrase, filler, and the newline it ends with
LineLong ==
    Lc(<<"jailbreak">>) \o [i \in 1..ExcerptLimit |-> Word("x", FALSE)]
        \o <<Word("\n", FALSE)>>

LogLines == {LineBenign, LineInject, LineDouble}

Whitespace == {" ", "\n"}

\* line.strip(): the line without its leading and trailing whitespace
strip(line) ==
    LET inner == {i \in 1..Len(line) : line[i].w \notin Whitespace}
    IN  IF inner = {} THEN <<>>
        ELSE SubSeq(line, CHOOSE i \in inner : \A j \in inner : i <= j,
                          CHOOSE i \in inner : \A j \in inner : j <= i)

\* line.strip()[:200]
excerpt_of(line) ==
    SubSeq(strip(line), 1, IF Len(strip(line)) < ExcerptLimit
                           THEN Len(strip(line)) ELSE ExcerptLimit)

log_files == <<"logs/openclaw.log", "logs/api.log">>

LogFiles == {log_files[i] : i \in 1..Len(log_files)}

\* the (line_number, pattern) matches of a list of lines, in the order the two
\* nested loops of check_injection_patterns meet them
RECURSIVE matches_from(_, _, _)
matches_from(lines, line_num, p) ==
    IF line_num > Len(lines) THEN <<>>
    ELSE IF p > Len(injection_patterns) THEN matches_from(lines, line_num + 1, 1)
    ELSE (IF contains(lower(lines[line_num]), injection_patterns[p])
          THEN <<[line_number |-> line_num, pattern |-> injection_patterns[p],
                  excerpt |-> excerpt_of(lines[line_num]), severity |-> "critical"]>>
          ELSE <<>>)
         \o matches_from(lines, line_num, p + 1)

----------------------------------------------------------------------------
(* Rows of security_events and drift_alerts *)

EventRow(ts, event_type, severity, metadata) ==
    [timestamp |-> ts, event_type |-> event_type, severity |-> severity,
     metadata |-> metadata, resolved |-> FALSE]

AlertRow(ts, filepath, expected, actual) ==
    [timestamp |-> ts, file_path |-> filepath, expected_hash |-> expected,
     actual_hash |-> actual, diff_summary |-> <<"Hash changed", expected, actual>>,
     acknowledged |-> FALSE]

\* detect_drift: drift['severity']
drift_severity(filepath) ==
    IF filepath \in {"SOUL.md", "openclaw.json"} THEN "high" ELSE "medium"

----------------------------------------------------------------------------
(* Audit *)

sensitive_files == <<".env", "openclaw.json", "SOUL.md">>

EmptyDict == Dict(<<>>, <<>>)

\* d.get(key, default)
dict_get(d, key, default) == IF KeyIn(key, d) THEN d.get[key] ELSE default

\* Python truthiness of a loaded JSON value
py_truthy(v) ==
    IF v.t = "dict" THEN Len(v.keys) > 0
    ELSE v.v \notin {"false", "null", "0", ""}

\* config.get('security', {}).get(section, {}).get('enabled', False)
security_flag(config, section) ==
    py_truthy(dict_get(dict_get(dict_get(config, "security", EmptyDict),
                                section, EmptyDict),
                       "enabled", Scalar("false")))

\* the files whose permission check fails
InsecureFiles ==
    {i \in 1..Len(sensitive_files) :
        exists(sensitive_files[i]) /\ fs[sensitive_files[i]].mode # "600"}

\* run_audit raises before it stores anything: open() or json.load() fails
audit_raises ==
    /\ exists("openclaw.json")
    /\ \/ ~Readable("openclaw.json")
       \/ json_load(fs["openclaw.json"].content) = ParseError

\* (variant, for sensitivity) a failed permission check costs 20, like a flag check
audit_score_steep ==
    LET config == json_load(fs["openclaw.json"].content)
    IN  100 - 20 * Cardinality(InsecureFiles)
            - (IF exists("openclaw.json") /\ ~security_flag(config, "authentication")
               THEN 20 ELSE 0)
            - (IF exists("openclaw.json") /\ ~security_flag(config, "prompt_injection_defense")
               THEN 20 ELSE 0)

audit_score ==
    LET config == json_load(fs["openclaw.json"].content)
    IN  100 - 10 * Cardinality(InsecureFiles)
            - (IF exists("openclaw.json") /\ ~security_flag(config, "authentication")
               THEN 20 ELSE 0)
            - (IF exists("openclaw.json") /\ ~security_flag(config, "prompt_injection_defense")
               THEN 20 ELSE 0)

audit_issues ==
    LET config == json_load(fs["openclaw.json"].content)
    IN  [i \in 1..Cardinality(InsecureFiles) |-> "Insecure permissions"]
        \o (IF exists("openclaw.json") /\ ~security_flag(config, "authentication")
            THEN <<"Authentication is disabled">> ELSE <<>>)
        \o (IF exists("openclaw.json") /\ ~security_flag(config, "prompt_injection_defense")
            THEN <<"Prompt injection defense is disabled">> ELSE <<>>)

\* (variant, for sensitivity) a score of 70 is critical too
audit_severity_inclusive(score) == IF score <= 70 THEN "critical" ELSE "info"

\* 'critical' if audit_results['score'] < 70 else 'info'
audit_severity(score) == IF score < 70 THEN "critical" ELSE "info"

----------------------------------------------------------------------------
(* Metrics *)

critical_files == <<"openclaw.json", "SOUL.md", ".env">>

\* (variant, for sensitivity) the thresholds are inclusive: >= 10 and >= 50
get_system_health_inclusive(events) ==
    LET missing == \E i \in 1..Len(critical_files) : ~exists(critical_files[i])
        unresolved == Cardinality({i \in 1..Len(events) : ~events[i].resolved})
    IN  [status |-> IF unresolved >= 50 THEN "critical"
                    ELSE IF unresolved >= 10 THEN "warning"
                    ELSE IF missing THEN "degraded"
                    ELSE "healthy",
         unresolved_alerts |-> unresolved]

\* SecurityMonitor.get_system_health, on the tables the daemon's connection sees
get_system_health(events) ==
    LET missing == \E i \in 1..Len(critical_files) : ~exists(critical_files[i])
        unresolved == Cardinality({i \in 1..Len(events) : ~events[i].resolved})
    IN  [status |-> IF unresolved > 50 THEN "critical"
                    ELSE IF unresolved > 10 THEN "warning"
                    ELSE IF missing THEN "degraded"
                    ELSE "healthy",
         unresolved_alerts |-> unresolved]

\* SecurityMonitor.generate_metrics
generate_metrics(events, alerts, t) ==
    LET recent == {i \in 1..Len(events) :
                      text_greater(isoformat(events[i].timestamp),
                                   sqlite_datetime_minus_24h(t))}
        groups == {<<events[i].event_type, events[i].severity>> : i \in recent}
    IN  [timestamp |-> t,
         events |-> [g \in groups |->
                        Cardinality({i \in recent :
                            <<events[i].event_type, events[i].severity>> = g})],
         drift |-> Cardinality({i \in 1..Len(alerts) : ~alerts[i].acknowledged}),
         health |-> get_system_health(events)]

----------------------------------------------------------------------------
(* Initial state: an empty store (SecurityMonitor.__init__ creates the      *)
(* tables), the monitored files present or not, the daemon not yet started  *)

Present(content, mode) == [exists |-> TRUE, mode |-> mode, content |-> content]

NoLog == [exists |-> FALSE, lines |-> <<>>]

NoOp == [op |-> "none"]

NoMetrics == [timestamp |-> -1]

\* the monitored files that do not exist when the daemon starts
InitiallyMissing == {{}, {".env"}}

Init ==
    /\ \E missing \in InitiallyMissing :
           fs = [p \in Files |-> IF p \in missing THEN Absent
                                 ELSE Present(InitialContent(p), "644")]
    /\ logs = [lf \in LogFiles |->
                  IF lf = "logs/openclaw.log"
                  THEN [exists |-> TRUE, lines |-> <<LineBenign, LineInject>>]
                  ELSE NoLog]
    /\ config_history = <<>>
    /\ security_events = <<>>
    /\ drift_alerts = <<>>
    /\ db_open = TRUE
    /\ baseline_hashes = [p \in Files |-> None]
    /\ pc = "INIT"
    /\ sub = "none"
    /\ drifts = <<>>
    /\ metrics = NoMetrics
    /\ snapshot = [state |-> "absent", doc |-> NoMetrics]
    /\ now = 0
    /\ cycle = 0
    /\ used = [env |-> 0, cli |-> 0, faults |-> 0, restarts |-> 0]
    /\ lastOp = NoOp

daemon_vars == <<db_open, baseline_hashes, pc, sub, drifts, metrics, snapshot, cycle>>

store_vars == <<config_history, security_events, drift_alerts>>

----------------------------------------------------------------------------
(* The environment: edits of the monitored files and of the logs *)

InLoop == pc \in {"SCAN_DRIFT", "SCAN_LOGS", "AGGREGATE", "PUBLISH", "SLEEP"}

Terminated == pc \in {"STOPPED", "FAILED", "ABORTED", "INTERRUPTED", "CRASHED"}

\* The daemon's steps take milliseconds and its sleep a minute: the files and the
\* logs are edited before the daemon starts, before its first cycle or while it
\* sleeps.  The CLI is used at any moment while the daemon has not ended.
Idle == pc \in {"INIT", "INITIAL_AUDIT", "SLEEP"}

EnvBudget == Idle /\ used.env < MaxFsChanges

\* the modes the files are switched between, and the lines the logs receive
ChmodModes == {"644", "000"}
AppendedLines == {LineDouble}

UseEnv == used' = [used EXCEPT !.env = @ + 1]

WriteFile(p, c) ==
    /\ EnvBudget
    /\ exists(p) /\ c \in ContentsOf(p) /\ c # fs[p].content
    /\ fs' = [fs EXCEPT ![p].content = c]
    /\ UseEnv
    /\ lastOp' = NoOp
    /\ UNCHANGED <<logs, store_vars, daemon_vars, now>>

CreateFile(p, c) ==
    /\ EnvBudget
    /\ ~exists(p) /\ c \in ContentsOf(p)
    /\ fs' = [fs EXCEPT ![p] = Present(c, "644")]
    /\ UseEnv
    /\ lastOp' = NoOp
    /\ UNCHANGED <<logs, store_vars, daemon_vars, now>>

DeleteFile(p) ==
    /\ EnvBudget
    /\ exists(p)
    /\ fs' = [fs EXCEPT ![p] = Absent]
    /\ UseEnv
    /\ lastOp' = NoOp
    /\ UNCHANGED <<logs, store_vars, daemon_vars, now>>

Chmod(p, m) ==
    /\ EnvBudget
    /\ exists(p) /\ m \in ChmodModes /\ m # fs[p].mode
    /\ fs' = [fs EXCEPT ![p].mode = m]
    /\ UseEnv
    /\ lastOp' = NoOp
    /\ UNCHANGED <<logs, store_vars, daemon_vars, now>>

AppendLog(lf, line) ==
    /\ EnvBudget
    /\ line \in AppendedLines
    /\ logs' = [logs EXCEPT ![lf] = [exists |-> TRUE, lines |-> Append(@.lines, line)]]
    /\ UseEnv
    /\ lastOp' = NoOp
    /\ UNCHANGED <<fs, store_vars, daemon_vars, now>>

----------------------------------------------------------------------------
(* The CLI (drift_detector.py main): each command runs to completion on the *)
(* committed store                                                          *)

CliBudget == ~Terminated /\ used.cli < MaxCliOps

ScanInputs == {monitored_files}

\* --scan FILES / --report
Scan(files) ==
    /\ ~Terminated
    /\ lastOp' = [op |-> "scan", files |-> files,
                  result |-> scan_all_monitored_files(files)]
    /\ UNCHANGED <<fs, logs, store_vars, daemon_vars, now, used>>

\* (variant, for sensitivity) the UPDATE reaches only the oldest unacknowledged alert of the file
acknowledge_oldest_only(alerts, p) ==
    [i \in 1..Len(alerts) |->
        IF /\ alerts[i].file_path = p /\ ~alerts[i].acknowledged
           /\ \A j \in 1..(i - 1) : alerts[j].file_path = p => alerts[j].acknowledged
        THEN [alerts[i] EXCEPT !.acknowledged = TRUE]
        ELSE alerts[i]]

\* UPDATE drift_alerts SET acknowledged = 1 WHERE file_path = ? AND acknowledged = 0
acknowledge(alerts, p) ==
    [i \in 1..Len(alerts) |->
        IF alerts[i].file_path = p /\ ~alerts[i].acknowledged
        THEN [alerts[i] EXCEPT !.acknowledged = TRUE]
        ELSE alerts[i]]

\* (variant, for sensitivity) no row is inserted when the newest row of the file has this hash already
approved_rows_unless_same(history, ts, p, h) ==
    IF \E i \in 1..Len(history) :
           /\ history[i].file_path = p /\ history[i].hash = h
           /\ \A j \in (i + 1)..Len(history) : history[j].file_path # p
    THEN history
    ELSE Append(history, ConfigRow(ts, p, h, "approved_change"))

\* (variant, for sensitivity) INSERT OR REPLACE keyed by the file: the new row takes
\* the place of the file's earlier rows
approved_rows_replacing(history, ts, p, h) ==
    Append(SelectSeq(history, LAMBDA r : r.file_path # p),
           ConfigRow(ts, p, h, "approved_change"))

\* INSERT INTO config_history ... 'approved_change'
approved_rows(history, ts, p, h) ==
    Append(history, ConfigRow(ts, p, h, "approved_change"))

\* --approve FILE: DriftDetector.approve_drift
ApproveDrift(p) ==
    LET current_hash == calculate_hash(p)
    IN  /\ CliBudget
        /\ IF ~Truthy(current_hash)
           THEN /\ lastOp' = [op |-> "approve", filepath |-> p,
                              result |-> [error |-> "Could not calculate hash"],
                              history_before |-> Len(config_history)]
                /\ UNCHANGED store_vars
           ELSE /\ drift_alerts' = acknowledge(drift_alerts, p)
                /\ config_history' = approved_rows(config_history, now, p, current_hash)
                /\ lastOp' = [op |-> "approve", filepath |-> p,
                              result |-> [status |-> "approved", filepath |-> p,
                                          new_baseline |-> current_hash],
                              history_before |-> Len(config_history)]
                /\ UNCHANGED security_events
        /\ used' = [used EXCEPT !.cli = @ + 1]
        /\ UNCHANGED <<fs, logs, daemon_vars, now>>

----------------------------------------------------------------------------
(* SQL statements and transactions                                          *)
(* sqlite3 opens a transaction before the first INSERT after a commit; the  *)
(* rows become durable at commit(); a connection that is closed, or a       *)
(* process that dies, with a transaction open loses that transaction        *)

Insert(table, row) == [op |-> "insert", table |-> table, row |-> row]

Commit == [op |-> "commit"]

Raise == [op |-> "raise"]

\* the largest element of a non-empty set of integers
Max(S) == CHOOSE x \in S : \A y \in S : y <= x

\* (variant, for sensitivity) autocommit: every statement is durable as soon as it is executed
durable_autocommit(stmts, executed) == SubSeq(stmts, 1, executed)

\* the statements, among the first `executed`, whose effect is durable
durable(stmts, executed) ==
    SubSeq(stmts, 1, Max({0} \cup {j \in 1..executed : stmts[j].op = "commit"}))

\* the rows a sequence of statements inserts into a table
inserted(stmts, table) ==
    LET sel == SelectSeq(stmts, LAMBDA st : st.op = "insert" /\ st.table = table)
    IN  [i \in 1..Len(sel) |-> sel[i].row]

----------------------------------------------------------------------------
(* The daemon: SecurityMonitor.monitor_loop *)

FaultBudget == used.faults < MaxFaults

UseFault == used' = [used EXCEPT !.faults = @ + 1]

\* (variant, for sensitivity) the exception is logged and the loop goes on to its sleep
RaiseInLoopRetry ==
    /\ pc' = "SLEEP"
    /\ db_open' = db_open
    /\ sub' = "none"

\* an exception leaves the try block of monitor_loop: `except Exception` logs and
\* re-raises, `finally` closes the connection
RaiseInLoop ==
    /\ pc' = "FAILED"
    /\ db_open' = FALSE
    /\ sub' = "none"

\* KeyboardInterrupt inside the try block: logged, then `finally` closes the connection
StopInLoop ==
    /\ pc' = "STOPPED"
    /\ db_open' = FALSE
    /\ sub' = "none"

\* the process is killed or the machine stops
Die ==
    /\ pc' = "CRASHED"
    /\ sub' = "none"
    /\ UNCHANGED db_open

\* the files establish_baseline stores a baseline for, in order
BaselineFiles ==
    SelectSeq(monitored_files,
              LAMBDA p : exists(p) /\ Truthy(calculate_file_hash(p)))

baseline_rows(files, k, t) ==
    [i \in 1..k |-> ConfigRow(t, files[i], calculate_file_hash(files[i]), "baseline")]

\* self.baseline_hashes after the first k files of `files`
baseline_map(old, files, k) ==
    [p \in Files |->
        IF \E i \in 1..k : files[i] = p THEN calculate_file_hash(p) ELSE old[p]]

\* establish_baseline(monitored_files): one INSERT and one commit per file
EstablishBaseline ==
    /\ pc = "INIT"
    /\ LET n == Len(BaselineFiles)
       IN  /\ config_history' = config_history \o baseline_rows(BaselineFiles, n, now)
           /\ baseline_hashes' = baseline_map(baseline_hashes, BaselineFiles, n)
    /\ pc' = "BASELINE_ESTABLISHED"
    /\ lastOp' = NoOp
    /\ UNCHANGED <<fs, logs, security_events, drift_alerts, db_open, sub, drifts,
                   metrics, snapshot, now, cycle, used>>

\* the k-th INSERT of establish_baseline fails: the exception leaves monitor_loop,
\* which has not entered its try block
EstablishBaselineStoreError ==
    /\ pc = "INIT"
    /\ FaultBudget
    /\ \E k \in 1..Len(BaselineFiles) :
          /\ config_history' = config_history \o baseline_rows(BaselineFiles, k - 1, now)
          /\ baseline_hashes' = baseline_map(baseline_hashes, BaselineFiles, k)
    /\ pc' = "ABORTED"
    /\ UseFault
    /\ lastOp' = NoOp
    /\ UNCHANGED <<fs, logs, security_events, drift_alerts, db_open, sub, drifts,
                   metrics, snapshot, now, cycle>>

\* the row run_audit stores
audit_event(t) ==
    EventRow(t, "security_audit", audit_severity(audit_score),
             [score |-> audit_score, issues |-> audit_issues])

\* run_audit(), called once before the loop
RunInitialAudit ==
    /\ pc = "BASELINE_ESTABLISHED"
    /\ ~audit_raises
    /\ security_events' = Append(security_events, audit_event(now))
    /\ pc' = "INITIAL_AUDIT"
    /\ lastOp' = NoOp
    /\ UNCHANGED <<fs, logs, config_history, drift_alerts, db_open, baseline_hashes,
                   sub, drifts, metrics, snapshot, now, cycle, used>>

\* run_audit() raises: openclaw.json cannot be opened or parsed, or the INSERT fails
RunInitialAuditRaises ==
    /\ pc = "BASELINE_ESTABLISHED"
    /\ \/ audit_raises /\ UNCHANGED used
       \/ ~audit_raises /\ FaultBudget /\ UseFault
    /\ pc' = "ABORTED"
    /\ lastOp' = NoOp
    /\ UNCHANGED <<fs, logs, store_vars, db_open, baseline_hashes, sub, drifts,
                   metrics, snapshot, now, cycle>>

\* (variant, for sensitivity) the iteration begins with the log scan
StartCycleWithoutDriftScan ==
    /\ cycle < MaxCycles
    /\ pc' = "SCAN_LOGS"
    /\ cycle' = cycle + 1
    /\ lastOp' = NoOp
    /\ UNCHANGED <<fs, logs, store_vars, db_open, baseline_hashes, sub, drifts, metrics,
                   snapshot, used>>

\* (variant, for sensitivity) the loop backs off once a scan has found something
StartCycleUnlessFindings ==
    /\ cycle < MaxCycles
    /\ drift_alerts = <<>>
    /\ \A i \in 1..Len(security_events) :
           security_events[i].event_type = "security_audit"
    /\ pc' = "SCAN_DRIFT"
    /\ cycle' = cycle + 1
    /\ lastOp' = NoOp
    /\ UNCHANGED <<fs, logs, store_vars, db_open, baseline_hashes, sub, drifts, metrics,
                   snapshot, used>>

\* `while True:` one more iteration begins
StartCycle ==
    /\ cycle < MaxCycles
    /\ pc' = "SCAN_DRIFT"
    /\ cycle' = cycle + 1
    /\ lastOp' = NoOp
    /\ UNCHANGED <<fs, logs, store_vars, db_open, baseline_hashes, sub, drifts, metrics,
                   snapshot, used>>

EnterLoop == pc = "INITIAL_AUDIT" /\ StartCycle /\ UNCHANGED now

\* time.sleep(CHECK_INTERVAL) returns: the clock has advanced
WakeUp == pc = "SLEEP" /\ StartCycle /\ now' = now + SleepTicks

----------------------------------------------------------------------------
(* SCAN_DRIFT: detect_drift(monitored_files) *)

\* (variant, for sensitivity) `if baseline_hash:` the comparison is lost
drift_condition_no_compare(baseline_hash, current_hash) == Truthy(baseline_hash)

\* (variant, for sensitivity) `if current_hash != baseline_hash`: a file without a
\* baseline differs from it
drift_condition_without_baseline(baseline_hash, current_hash) ==
    current_hash # baseline_hash

\* `if baseline_hash and current_hash != baseline_hash`
drift_condition(baseline_hash, current_hash) ==
    Truthy(baseline_hash) /\ current_hash # baseline_hash

\* the dict `drift`
new_drift(p, t) ==
    [timestamp |-> t, file |-> p, expected |-> baseline_hashes[p],
     actual |-> calculate_file_hash(p), severity |-> drift_severity(p)]

\* the security event a drift is stored with
drift_event(d) == EventRow(d.timestamp, "config_drift", d.severity, d)

\* (variant, for sensitivity) a drift that already has an unacknowledged alert with
\* the same hashes is not stored again
drift_body_once(p, t) ==
    IF ~Truthy(calculate_file_hash(p))
    THEN <<Raise>>
    ELSE IF \E i \in 1..Len(drift_alerts) :
                /\ drift_alerts[i].file_path = p
                /\ ~drift_alerts[i].acknowledged
                /\ drift_alerts[i].actual_hash = calculate_file_hash(p)
    THEN <<>>
    ELSE <<Insert("drift_alerts",
                  AlertRow(t, p, baseline_hashes[p], calculate_file_hash(p))),
           Insert("security_events", drift_event(new_drift(p, t))),
           Commit>>

\* the statements of the loop body for one drifting file.  With current_hash None,
\* current_hash[:8] raises TypeError while the first INSERT's parameters are built
drift_body(p, t) ==
    IF ~Truthy(calculate_file_hash(p))
    THEN <<Raise>>
    ELSE <<Insert("drift_alerts",
                  AlertRow(t, p, baseline_hashes[p], calculate_file_hash(p))),
           Insert("security_events", drift_event(new_drift(p, t))),
           Commit>>

\* the statements detect_drift executes from the i-th file on; a missing file is
\* skipped (`continue`), nothing follows a raise
RECURSIVE detect_drift(_, _)
detect_drift(i, t) ==
    IF i > Len(monitored_files) THEN <<>>
    ELSE LET p == monitored_files[i]
         IN  IF exists(p) /\ drift_condition(baseline_hashes[p], calculate_file_hash(p))
             THEN IF drift_body(p, t) = <<Raise>>
                  THEN <<Raise>>
                  ELSE drift_body(p, t) \o detect_drift(i + 1, t)
             ELSE detect_drift(i + 1, t)

\* the files appended to `drifts` by the first `executed` statements
reported(stmts, executed) ==
    LET sel == SelectSeq(SubSeq(stmts, 1, executed),
                         LAMBDA st : st.op = "insert" /\ st.table = "drift_alerts")
    IN  [i \in 1..Len(sel) |-> sel[i].row.file_path]

\* detect_drift ends after `executed` of its statements
DetectDriftEffect(stmts, executed) ==
    /\ drift_alerts' = drift_alerts \o inserted(durable(stmts, executed), "drift_alerts")
    /\ security_events' =
           security_events \o inserted(durable(stmts, executed), "security_events")
    /\ drifts' = reported(stmts, executed)
    /\ lastOp' = NoOp
    /\ UNCHANGED <<fs, logs, config_history, baseline_hashes, metrics, snapshot, now,
                   cycle>>

Raises(stmts) == Len(stmts) > 0 /\ stmts[Len(stmts)] = Raise

\* detect_drift returns
DetectDrift ==
    /\ pc = "SCAN_DRIFT"
    /\ LET stmts == detect_drift(1, now)
       IN  /\ ~Raises(stmts)
           /\ DetectDriftEffect(stmts, Len(stmts))
    /\ pc' = "SCAN_LOGS"
    /\ UNCHANGED <<db_open, sub, used>>

\* detect_drift raises TypeError on a file that exists and cannot be read
DetectDriftTypeError ==
    /\ pc = "SCAN_DRIFT"
    /\ LET stmts == detect_drift(1, now)
       IN  /\ Raises(stmts)
           /\ DetectDriftEffect(stmts, Len(stmts) - 1)
    /\ RaiseInLoop
    /\ UNCHANGED used

\* the j-th statement of detect_drift (an INSERT or a commit) fails with sqlite3.Error
DetectDriftStoreError ==
    /\ pc = "SCAN_DRIFT"
    /\ FaultBudget
    /\ LET stmts == detect_drift(1, now)
       IN  \E j \in 1..Len(stmts) :
              /\ stmts[j] # Raise
              /\ DetectDriftEffect(stmts, j - 1)
    /\ RaiseInLoop
    /\ UseFault

\* the process dies inside detect_drift, after `executed` statements
DetectDriftCrash ==
    /\ pc = "SCAN_DRIFT"
    /\ LET stmts == detect_drift(1, now)
       IN  \E executed \in 1..Len(stmts) :
              /\ stmts[executed] # Raise
              /\ DetectDriftEffect(stmts, executed)
    /\ Die
    /\ UNCHANGED used

\* SIGINT inside detect_drift, after `executed` statements
DetectDriftInterrupt ==
    /\ pc = "SCAN_DRIFT"
    /\ LET stmts == detect_drift(1, now)
       IN  \E executed \in 1..Len(stmts) :
              /\ stmts[executed] # Raise
              /\ DetectDriftEffect(stmts, executed)
    /\ StopInLoop
    /\ UNCHANGED used

----------------------------------------------------------------------------
(* SCAN_LOGS: check_injection_patterns on each log file that exists *)

\* (variant, for sensitivity) a match that has an event in the store is not stored
\* again
stored_alerts_unseen(lf, fail_at) ==
    LET all == IF logs[lf].exists THEN matches_from(logs[lf].lines, 1, 1) ELSE <<>>
        found == SelectSeq(all, LAMBDA a :
                     ~\E i \in 1..Len(security_events) :
                          /\ security_events[i].event_type = "injection_attempt"
                          /\ security_events[i].metadata.line_number = a.line_number
                          /\ security_events[i].metadata.pattern = a.pattern)
    IN  IF fail_at = 0 THEN found ELSE SubSeq(found, 1, fail_at - 1)

\* the alerts of one log file whose INSERTs succeed: all of them, or those before
\* the failing one (fail_at = 0: no failure); `except Exception` ends the scan of
\* the file there and the alerts found so far are returned
stored_alerts(lf, fail_at) ==
    LET found == IF logs[lf].exists THEN matches_from(logs[lf].lines, 1, 1) ELSE <<>>
    IN  IF fail_at = 0 THEN found ELSE SubSeq(found, 1, fail_at - 1)

injection_events(alerts, t) ==
    [i \in 1..Len(alerts) |->
        EventRow(t, "injection_attempt", "critical",
                 [timestamp |-> t, line_number |-> alerts[i].line_number,
                  pattern |-> alerts[i].pattern, excerpt |-> alerts[i].excerpt,
                  severity |-> alerts[i].severity])]

\* the two calls of the loop `for log_file in log_files`
check_injection_patterns_all(fail_at) ==
    LET stored == stored_alerts(log_files[1], fail_at[log_files[1]])
                      \o stored_alerts(log_files[2], fail_at[log_files[2]])
    IN  security_events' = security_events \o injection_events(stored, now)

ScanLogs ==
    /\ pc = "SCAN_LOGS"
    /\ check_injection_patterns_all([lf \in LogFiles |-> 0])
    /\ pc' = "AGGREGATE"
    /\ drifts' = <<>>
    /\ lastOp' = NoOp
    /\ UNCHANGED <<fs, logs, config_history, drift_alerts, db_open, baseline_hashes,
                   sub, metrics, snapshot, now, cycle, used>>

\* an INSERT of check_injection_patterns fails: the exception is logged inside
\* check_injection_patterns and monitor_loop goes on
ScanLogsStoreError ==
    /\ pc = "SCAN_LOGS"
    /\ FaultBudget
    /\ \E lf \in LogFiles :
          \E k \in 1..Len(stored_alerts(lf, 0)) :
              check_injection_patterns_all([l \in LogFiles |-> IF l = lf THEN k ELSE 0])
    /\ UseFault
    /\ pc' = "AGGREGATE"
    /\ drifts' = <<>>
    /\ lastOp' = NoOp
    /\ UNCHANGED <<fs, logs, config_history, drift_alerts, db_open, baseline_hashes,
                   sub, metrics, snapshot, now, cycle>>

----------------------------------------------------------------------------
(* AGGREGATE and PUBLISH *)

\* metrics = self.generate_metrics()
GenerateMetrics ==
    /\ pc = "AGGREGATE"
    /\ metrics' = generate_metrics(security_events, drift_alerts, now)
    /\ pc' = "PUBLISH"
    /\ sub' = "open"
    /\ lastOp' = NoOp
    /\ UNCHANGED <<fs, logs, store_vars, db_open, baseline_hashes, drifts, snapshot,
                   now, cycle, used>>

\* the SELECT of get_system_health fails: `except Exception` sets the status
\* 'error', no unresolved count is stored, and generate_metrics returns
GenerateMetricsHealthError ==
    /\ pc = "AGGREGATE"
    /\ FaultBudget
    /\ metrics' = [generate_metrics(security_events, drift_alerts, now)
                      EXCEPT !.health = [status |-> "error"]]
    /\ pc' = "PUBLISH"
    /\ sub' = "open"
    /\ UseFault
    /\ lastOp' = NoOp
    /\ UNCHANGED <<fs, logs, store_vars, db_open, baseline_hashes, drifts, snapshot,
                   now, cycle>>

\* a SELECT of generate_metrics fails with sqlite3.Error
GenerateMetricsStoreError ==
    /\ pc = "AGGREGATE"
    /\ FaultBudget
    /\ RaiseInLoop
    /\ UseFault
    /\ lastOp' = NoOp
    /\ UNCHANGED <<fs, logs, store_vars, baseline_hashes, drifts, metrics, snapshot,
                   now, cycle>>

\* open('web/metrics.json', 'w') truncates the file
PublishOpen ==
    /\ pc = "PUBLISH" /\ sub = "open"
    /\ snapshot' = [state |-> "empty", doc |-> NoMetrics]
    /\ sub' = "dump"
    /\ lastOp' = NoOp
    /\ UNCHANGED <<fs, logs, store_vars, db_open, baseline_hashes, pc, drifts, metrics,
                   now, cycle, used>>

\* json.dump(metrics, f, indent=2) and the end of the with block
PublishDump ==
    /\ pc = "PUBLISH" /\ sub = "dump"
    /\ snapshot' = [state |-> "complete", doc |-> metrics]
    /\ metrics' = NoMetrics
    /\ pc' = "SLEEP"
    /\ sub' = "none"
    /\ lastOp' = NoOp
    /\ UNCHANGED <<fs, logs, store_vars, db_open, baseline_hashes, drifts, now, cycle,
                   used>>

\* OSError in the with block: open() fails and the file is as it was, or the
\* write fails (disk full) and the file holds a part of the document
PublishIOError ==
    /\ pc = "PUBLISH"
    /\ FaultBudget
    /\ snapshot' = IF sub = "open" THEN snapshot
                   ELSE [state |-> "partial", doc |-> NoMetrics]
    /\ RaiseInLoop
    /\ UseFault
    /\ lastOp' = NoOp
    /\ UNCHANGED <<fs, logs, store_vars, baseline_hashes, drifts, metrics, now, cycle>>

----------------------------------------------------------------------------
(* The ways the daemon ends between two steps *)

\* SIGINT: inside the try block KeyboardInterrupt is caught and the connection is
\* closed; before the try block (establish_baseline, run_audit) nothing catches
\* it and it leaves monitor_loop and main
Interrupt ==
    /\ ~Terminated
    /\ IF InLoop THEN StopInLoop
       ELSE pc' = "INTERRUPTED" /\ UNCHANGED <<db_open, sub>>
    /\ lastOp' = NoOp
    /\ UNCHANGED <<fs, logs, store_vars, baseline_hashes, drifts, metrics, snapshot,
                   now, cycle, used>>

Crash ==
    /\ ~Terminated
    /\ Die
    /\ lastOp' = NoOp
    /\ UNCHANGED <<fs, logs, store_vars, baseline_hashes, drifts, metrics, snapshot,
                   now, cycle, used>>

----------------------------------------------------------------------------

Environment ==
    \/ \E p \in Files : \E c \in JsonContents \cup TextContents : WriteFile(p, c)
    \/ \E p \in Files : \E c \in JsonContents \cup TextContents : CreateFile(p, c)
    \/ \E p \in Files : DeleteFile(p)
    \/ \E p \in Files : \E m \in ChmodModes : Chmod(p, m)
    \/ \E lf \in LogFiles : \E line \in AppendedLines : AppendLog(lf, line)

Cli ==
    \/ \E files \in ScanInputs : Scan(files)
    \/ \E p \in Files : ApproveDrift(p)

Daemon ==
    \/ EstablishBaseline
    \/ EstablishBaselineStoreError
    \/ RunInitialAudit
    \/ RunInitialAuditRaises
    \/ EnterLoop
    \/ DetectDrift
    \/ DetectDriftTypeError
    \/ DetectDriftStoreError
    \/ DetectDriftCrash
    \/ DetectDriftInterrupt
    \/ ScanLogs
    \/ ScanLogsStoreError
    \/ GenerateMetrics
    \/ GenerateMetricsHealthError
    \/ GenerateMetricsStoreError
    \/ PublishOpen
    \/ PublishDump
    \/ PublishIOError
    \/ WakeUp
    \/ Interrupt
    \/ Crash

Next ==
    \/ Environment
    \/ Cli
    \/ Daemon

Spec == Init /\ [][Next]_vars

\* The steps the daemon takes by itself when nothing stops it: it is one sequential
\* process that keeps running, and time.sleep(CHECK_INTERVAL) returns
LoopStep ==
    \/ EnterLoop
    \/ DetectDrift
    \/ DetectDriftTypeError
    \/ ScanLogs
    \/ GenerateMetrics
    \/ PublishOpen
    \/ PublishDump
    \/ WakeUp

\* The daemon and the files it reads.  The CLI is left out of the fair runs: its
\* commands write drift_alerts.acknowledged and config_history, which no step of
\* monitor_loop reads to decide what it does next, and they never move pc.
FairNext ==
    \/ Environment
    \/ Daemon

FairSpec == Init /\ [][FairNext]_vars /\ WF_vars(LoopStep)

----------------------------------------------------------------------------
(* The aggregation step of a daemon that has been running for some days: the  *)
(* audit event of its start, and the injection events one of its cycles      *)
(* stored, seen from every later moment                                       *)

MaxNow == 9
MaxEvents == 52

AggregateMissing == {{}, {".env"}, {"openclaw.json", "SOUL.md"}}

\* the event check_injection_patterns stores for the matching line of the log
a_match == matches_from(<<LineInject>>, 1, 1)

AggregateInit ==
    /\ \E missing \in AggregateMissing :
           fs = [p \in Files |-> IF p \in missing THEN Absent
                                 ELSE Present(InitialContent(p), "644")]
    /\ logs = [lf \in LogFiles |->
                  IF lf = "logs/openclaw.log"
                  THEN [exists |-> TRUE, lines |-> <<LineBenign, LineInject>>]
                  ELSE NoLog]
    /\ config_history =
           [i \in 1..Len(monitored_files) |->
               ConfigRow(0, monitored_files[i], sha256(InitialContent(monitored_files[i])),
                         "baseline")]
    /\ baseline_hashes = [p \in Files |-> sha256(InitialContent(p))]
    /\ \E t \in 0..MaxNow : \E e \in 0..t : \E n \in 0..MaxEvents :
           /\ now = t
           /\ security_events =
                  <<EventRow(0, "security_audit", "critical",
                             [score |-> 30, issues |-> <<>>])>>
                  \o injection_events([i \in 1..n |-> a_match[1]], e)
    /\ drift_alerts = <<>>
    /\ db_open = TRUE
    /\ pc = "AGGREGATE"
    /\ sub = "none"
    /\ drifts = <<>>
    /\ metrics = NoMetrics
    /\ snapshot = [state |-> "absent", doc |-> NoMetrics]
    /\ cycle = MaxCycles
    /\ used = [env |-> 0, cli |-> 0, faults |-> 0, restarts |-> 0]
    /\ lastOp = NoOp

AggregateNext == GenerateMetrics

AggregateSpec == AggregateInit /\ [][AggregateNext]_vars

----------------------------------------------------------------------------
(* The start of the daemon on every deployment the audit tells apart: each    *)
(* sensitive file absent, owner-only or world-readable, and openclaw.json     *)
(* with its flags on, off, absent, unparsable or unreadable                   *)

AuditContents == {DocAuthOn, DocSecure, DocAuthOnly, DocBroken}

AuditConfigs ==
    {Absent, Present(DocSecure, "000")}
        \cup {Present(c, m) : c \in AuditContents, m \in {"600", "644"}}

AuditTexts == {Absent, Present("text v1", "600"), Present("text v1", "644")}

AuditInit ==
    /\ \E config \in AuditConfigs : \E soul \in AuditTexts : \E env \in AuditTexts :
           fs = [p \in Files |-> IF p = "openclaw.json" THEN config
                                 ELSE IF p = "SOUL.md" THEN soul ELSE env]
    /\ logs = [lf \in LogFiles |-> NoLog]
    /\ config_history = <<>>
    /\ security_events = <<>>
    /\ drift_alerts = <<>>
    /\ db_open = TRUE
    /\ baseline_hashes = [p \in Files |-> None]
    /\ pc = "INIT"
    /\ sub = "none"
    /\ drifts = <<>>
    /\ metrics = NoMetrics
    /\ snapshot = [state |-> "absent", doc |-> NoMetrics]
    /\ now = 0
    /\ cycle = 0
    /\ used = [env |-> 0, cli |-> 0, faults |-> 0, restarts |-> 0]
    /\ lastOp = NoOp

AuditNext ==
    \/ EstablishBaseline
    \/ RunInitialAudit
    \/ RunInitialAuditRaises

AuditSpec == AuditInit /\ [][AuditNext]_vars

----------------------------------------------------------------------------
(* The log scan of a cycle on every log of up to MaxLines lines *)

MaxLines == 2

ScanLines == {LineBenign, LineInject, LineDouble, LineLong}

ScanLogsOf(n) == UNION {[1..k -> ScanLines] : k \in 0..n}

ScanInit ==
    /\ fs = [p \in Files |-> Present(InitialContent(p), "644")]
    /\ \E lines \in ScanLogsOf(MaxLines) :
       \E api \in {NoLog} \cup {[exists |-> TRUE, lines |-> <<l>>] : l \in ScanLines} :
           logs = [lf \in LogFiles |->
                      IF lf = "logs/openclaw.log"
                      THEN [exists |-> TRUE, lines |-> lines]
                      ELSE api]
    /\ config_history =
           [i \in 1..Len(monitored_files) |->
               ConfigRow(0, monitored_files[i], sha256(InitialContent(monitored_files[i])),
                         "baseline")]
    /\ baseline_hashes = [p \in Files |-> sha256(InitialContent(p))]
    /\ security_events =
           <<EventRow(0, "security_audit", "critical", [score |-> 30, issues |-> <<>>])>>
    /\ drift_alerts = <<>>
    /\ db_open = TRUE
    /\ pc = "SCAN_LOGS"
    /\ sub = "none"
    /\ drifts = <<>>
    /\ metrics = NoMetrics
    /\ snapshot = [state |-> "absent", doc |-> NoMetrics]
    /\ now = 0
    /\ cycle = 1
    /\ used = [env |-> 0, cli |-> 0, faults |-> 0, restarts |-> 0]
    /\ lastOp = NoOp

ScanNext ==
    \/ ScanLogs
    \/ ScanLogsStoreError

ScanSpec == ScanInit /\ [][ScanNext]_vars

----------------------------------------------------------------------------
(* The daemon is started again on the store and the files an earlier run    *)
(* left; the files are edited up to MaxFsChanges times during each run       *)

\* `python monitor.py` once the earlier process has ended: main() builds a new
\* SecurityMonitor, whose connection is open and whose baseline map is empty, and
\* calls monitor_loop.  The rows this run writes in the tick the earlier run ended
\* in are inserted later and so have the later timestamps
Restart ==
    /\ Terminated
    /\ used.restarts < MaxRestarts
    /\ db_open' = TRUE
    /\ baseline_hashes' = [p \in Files |-> None]
    /\ pc' = "INIT"
    /\ sub' = "none"
    /\ drifts' = <<>>
    /\ metrics' = NoMetrics
    /\ used' = [used EXCEPT !.restarts = @ + 1, !.env = 0]
    /\ lastOp' = NoOp
    /\ UNCHANGED <<fs, logs, store_vars, snapshot, now, cycle>>

\* the configuration document is edited, the CLI is used, the daemon runs, is
\* stopped with Ctrl-C and is started again
RestartNext ==
    \/ \E c \in JsonContents : WriteFile("openclaw.json", c)
    \/ \E c \in JsonContents : CreateFile("openclaw.json", c)
    \/ DeleteFile("openclaw.json")
    \/ \E m \in ChmodModes : Chmod("openclaw.json", m)
    \/ Cli
    \/ EstablishBaseline
    \/ RunInitialAudit
    \/ RunInitialAuditRaises
    \/ EnterLoop
    \/ DetectDrift
    \/ DetectDriftTypeError
    \/ ScanLogs
    \/ GenerateMetrics
    \/ PublishOpen
    \/ PublishDump
    \/ WakeUp
    \/ Interrupt
    \/ Restart

RestartSpec == Init /\ [][RestartNext]_vars

----------------------------------------------------------------------------
(* The comparison of detect_json_drift on every pair of documents with two   *)
(* levels of keys: the baseline json.loads returned and the current document *)
(* json.load returned                                                         *)

MaxScalars == 2

DocKeys == <<"a", "b">>

\* NaN and the numbers 1, 2, ...
DocScalars == {NaN} \cup {Scalar(ToString(i)) : i \in 1..(MaxScalars - 1)}

\* the dicts with keys among DocKeys, in that order, and values among vals
DictsOver(vals) ==
    UNION {{Dict(SelectSeq(DocKeys, LAMBDA k : k \in K), get) : get \in [K -> vals]} :
              K \in SUBSET {DocKeys[i] : i \in 1..Len(DocKeys)}}

\* a value of a document is a scalar or a dict of scalars
Documents == DictsOver(DocScalars \cup DictsOver(DocScalars))

CompareInit ==
    /\ fs = [p \in Files |-> Present(InitialContent(p), "644")]
    /\ logs = [lf \in LogFiles |-> NoLog]
    /\ config_history = <<>>
    /\ security_events = <<>>
    /\ drift_alerts = <<>>
    /\ db_open = TRUE
    /\ baseline_hashes = [p \in Files |-> None]
    /\ pc = "INIT"
    /\ sub = "none"
    /\ drifts = <<>>
    /\ metrics = NoMetrics
    /\ snapshot = [state |-> "absent", doc |-> NoMetrics]
    /\ now = 0
    /\ cycle = 0
    /\ used = [env |-> 0, cli |-> 0, faults |-> 0, restarts |-> 0]
    /\ \E baseline \in Documents : \E current \in Documents :
           lastOp = [op |-> "loaded", baseline |-> baseline, current |-> current]

\* changes = self._compare_dicts(baseline, current)
CompareDicts ==
    /\ lastOp.op = "loaded"
    /\ lastOp' = [op |-> "compare", baseline |-> lastOp.baseline,
                  current |-> lastOp.current,
                  changes |-> compare_dicts(lastOp.baseline, lastOp.current, "")]
    /\ UNCHANGED <<fs, logs, store_vars, daemon_vars, now, used>>

CompareNext == CompareDicts

CompareSpec == CompareInit /\ [][CompareNext]_vars

----------------------------------------------------------------------------
(* The alert system (alerts.py): an AlertSystem with each channel enabled or  *)
(* not by its environment variable, and send_alert calls of every severity    *)
(* while each delivery succeeds or fails                                      *)

Channels == {"email", "slack", "discord", "sms"}

Severities == {"critical", "warning", "info", "error"}

\* what the body of a channel's try block does: it returns, or an exception
\* (SMTP, HTTP status, timeout, import of twilio) is raised in it
Deliveries == {"delivered", "exception"}

\* the calls send_alert makes for a severity, in order
selected_channels(severity) ==
    IF severity = "critical" THEN <<"email", "slack", "discord", "sms">>
    ELSE IF severity = "warning" THEN <<"email", "slack", "discord">>
    ELSE <<"slack", "discord">>

\* (variant, for sensitivity) the channel has no except clause
send_channel_uncaught(enabled, delivery) ==
    IF ~enabled THEN "False"
    ELSE IF delivery = "delivered" THEN "True"
    ELSE "raise"

\* send_email / send_slack / send_discord / send_sms: False when disabled,
\* `except Exception` turns a failure into False
send_channel(enabled, delivery) ==
    IF ~enabled THEN "False"
    ELSE IF delivery = "delivered" THEN "True"
    ELSE "False"

RECURSIVE send_alert_from(_, _, _, _)
\* the calls of send_alert from the i-th selected channel on: an exception that
\* leaves a channel leaves send_alert, which has no try block
send_alert_from(selected, enabled, delivery, i) ==
    IF i > Len(selected) THEN <<>>
    ELSE LET channel == selected[i]
             result == send_channel(enabled[channel], delivery[channel])
             call == [channel |-> channel, enabled |-> enabled[channel],
                      delivery |-> delivery[channel], result |-> result]
         IN  IF result = "raise" THEN <<call>>
             ELSE <<call>> \o send_alert_from(selected, enabled, delivery, i + 1)

\* AlertSystem.send_alert
send_alert(severity, enabled, delivery) ==
    LET calls == send_alert_from(selected_channels(severity), enabled, delivery, 1)
    IN  [op |-> "send_alert", severity |-> severity, enabled |-> enabled,
         calls |-> calls,
         raised |-> \E i \in 1..Len(calls) : calls[i].result = "raise"]

\* AlertSystem(): the *_ENABLED environment variables are read once
AlertInit ==
    /\ fs = [p \in Files |-> Present(InitialContent(p), "644")]
    /\ logs = [lf \in LogFiles |-> NoLog]
    /\ config_history = <<>>
    /\ security_events = <<>>
    /\ drift_alerts = <<>>
    /\ db_open = TRUE
    /\ baseline_hashes = [p \in Files |-> None]
    /\ pc = "INIT"
    /\ sub = "none"
    /\ drifts = <<>>
    /\ metrics = NoMetrics
    /\ snapshot = [state |-> "absent", doc |-> NoMetrics]
    /\ now = 0
    /\ cycle = 0
    /\ used = [env |-> 0, cli |-> 0, faults |-> 0, restarts |-> 0]
    /\ \E enabled \in [Channels -> BOOLEAN] :
           lastOp = [op |-> "alert_system", enabled |-> enabled]

\* alert_system.send_alert(type, severity, message, metadata)
SendAlert(severity, delivery) ==
    /\ lastOp.op \in {"alert_system", "send_alert"}
    /\ lastOp' = send_alert(severity, lastOp.enabled, delivery)
    /\ UNCHANGED <<fs, logs, store_vars, daemon_vars, now, used>>

AlertNext == \E severity \in Severities : \E delivery \in [Channels -> Deliveries] :
                 SendAlert(severity, delivery)

AlertSpec == AlertInit /\ [][AlertNext]_vars

----------------------------------------------------------------------------
(* A daemon that has run for days, asleep between two cycles: its store holds *)
(* the audit event of its start and about fifty injection events, and each    *)
(* further cycle stores the match of its log again                            *)

HealthInit ==
    /\ fs = [p \in Files |-> Present(InitialContent(p), "644")]
    /\ logs = [lf \in LogFiles |->
                  IF lf = "logs/openclaw.log"
                  THEN [exists |-> TRUE, lines |-> <<LineBenign, LineInject>>]
                  ELSE NoLog]
    /\ config_history =
           [i \in 1..Len(monitored_files) |->
               ConfigRow(0, monitored_files[i], sha256(InitialContent(monitored_files[i])),
                         "baseline")]
    /\ baseline_hashes = [p \in Files |-> sha256(InitialContent(p))]
    /\ \E n \in (MaxEvents - 4)..(MaxEvents - 2) :
           security_events =
               <<EventRow(0, "security_audit", "critical",
                          [score |-> 30, issues |-> <<>>])>>
               \o injection_events([i \in 1..n |-> a_match[1]], 0)
    /\ drift_alerts = <<>>
    /\ db_open = TRUE
    /\ pc = "SLEEP"
    /\ sub = "none"
    /\ drifts = <<>>
    /\ metrics = NoMetrics
    /\ snapshot = [state |-> "absent", doc |-> NoMetrics]
    /\ now = 0
    /\ cycle = 0
    /\ used = [env |-> 0, cli |-> 0, faults |-> 0, restarts |-> 0]
    /\ lastOp = NoOp

HealthNext ==
    \/ WakeUp
    \/ DetectDrift
    \/ ScanLogs
    \/ GenerateMetrics
    \/ GenerateMetricsHealthError
    \/ PublishOpen
    \/ PublishDump
    \/ \E p \in Files : ApproveDrift(p)

HealthSpec == HealthInit /\ [][HealthNext]_vars

----------------------------------------------------------------------------
(* Properties *)

\* the approve command has just returned {'status': 'approved', ...}
Approved(o) ==
    o.op = "approve" /\ "status" \in DOMAIN o.result /\ o.result.status = "approved"

Unacknowledged(alerts, p) ==
    {i \in 1..Len(alerts) : alerts[i].file_path = p /\ ~alerts[i].acknowledged}

AlertsOf(alerts, p) == {i \in 1..Len(alerts) : alerts[i].file_path = p}

DriftEventsOf(events, p) ==
    {i \in 1..Len(events) :
        events[i].event_type = "config_drift" /\ events[i].metadata.file = p}

\* the newest config_history row of a file, of either change_type (0: none)
NewestRecord(p) ==
    Max({0} \cup {i \in 1..Len(config_history) : config_history[i].file_path = p})

\* C1: every fingerprint comparison for a path uses the hash of its most recent
\* config_history record, baseline or approved_change: a scan reports a readable
\* file that has a record as drifted exactly when its hash differs from that
\* record's, so a file approved and not changed since is not reported as drifted.
C1_ScanComparesWithNewestRecord ==
    lastOp.op = "scan" =>
        \A i \in 1..Len(lastOp.files) :
            LET p == lastOp.files[i]
            IN  (Readable(p) /\ NewestRecord(p) # 0) =>
                    (lastOp.result.details[i].status = "drift_detected"
                        <=> sha256(fs[p].content) # config_history[NewestRecord(p)].hash)

\* C2: immediately after approve_drift(P) returns status 'approved', no DriftAlert
\* of P is unacknowledged.
C2_NoUnacknowledgedAfterApprove ==
    Approved(lastOp) => Unacknowledged(drift_alerts, lastOp.filepath) = {}

\* C2 witness: an approval that acknowledged two alerts of its file
C2_Witness ==
    /\ Approved(lastOp)
    /\ Cardinality({i \in AlertsOf(drift_alerts, lastOp.filepath) :
                       drift_alerts[i].acknowledged}) >= 2

\* C3: two consecutive successful approve_drift(P) calls append one config_history
\* record for P each, two in total, leave every earlier record as it was, and
\* leave no unacknowledged DriftAlert of P after the first and after the second.
C3_ApproveTwice ==
    [][(Approved(lastOp) /\ Approved(lastOp') /\ lastOp'.filepath = lastOp.filepath) =>
          /\ Len(config_history) = lastOp.history_before + 1
          /\ Len(config_history') = lastOp.history_before + 2
          /\ SubSeq(config_history', 1, Len(config_history)) = config_history
          /\ config_history[Len(config_history)].file_path = lastOp.filepath
          /\ config_history'[Len(config_history')].file_path = lastOp.filepath
          /\ Unacknowledged(drift_alerts, lastOp.filepath) = {}
          /\ Unacknowledged(drift_alerts', lastOp.filepath) = {}]_vars

\* C3 witness: the second of two approvals of a file that had an alert
C3_Witness ==
    /\ Approved(lastOp)
    /\ Len(config_history) = lastOp.history_before + 1
    /\ lastOp.history_before >= 1
    /\ config_history[lastOp.history_before].change_type = "approved_change"
    /\ config_history[lastOp.history_before].file_path = lastOp.filepath
    /\ config_history[lastOp.history_before].hash = lastOp.result.new_baseline
    /\ AlertsOf(drift_alerts, lastOp.filepath) # {}

\* the file has a computed fingerprint that differs from the baseline the daemon
\* compares it with
Differs(p) ==
    /\ fs[p].exists /\ fs[p].mode # "000"
    /\ baseline_hashes[p] # None
    /\ sha256(fs[p].content) # baseline_hashes[p]

\* C4: a SCAN_DRIFT step creates at most one DriftAlert per file, creates one only
\* for a file whose fingerprint differs from its baseline, and a step that runs to
\* its end creates one for every such file; the step creates as many config_drift
\* events for a file as alerts; no stored DriftAlert has equal hashes.
C4_AlertIffMismatch ==
    [][/\ \A p \in Files :
             LET created == Cardinality(AlertsOf(drift_alerts', p))
                                - Cardinality(AlertsOf(drift_alerts, p))
                 events == Cardinality(DriftEventsOf(security_events', p))
                                - Cardinality(DriftEventsOf(security_events, p))
             IN  /\ created \in {0, 1}
                 /\ created = 1 => pc = "SCAN_DRIFT" /\ Differs(p)
                 /\ (pc = "SCAN_DRIFT" /\ pc' = "SCAN_LOGS" /\ Differs(p)) => created = 1
                 /\ events = created
       /\ \A i \in 1..Len(drift_alerts') :
             drift_alerts'[i].expected_hash # drift_alerts'[i].actual_hash]_vars

\* C4 witness: a drift scan that found one file changed and the others unchanged
C4_Witness ==
    /\ pc = "SCAN_LOGS"
    /\ Len(drifts) = 1
    /\ \E p \in Files : p # drifts[1] /\ fs[p].exists /\ baseline_hashes[p] # None
    /\ AlertsOf(drift_alerts, drifts[1]) # {}

\* C5: in every state of the store, also the one a crash or a failure inside a
\* detection step leaves, DriftAlerts and config_drift events are paired one to
\* one by timestamp and file.
C5_AlertsPairedWithEvents ==
    \A p \in Files :
        \A t \in {drift_alerts[i].timestamp : i \in 1..Len(drift_alerts)}
                 \cup {security_events[i].timestamp : i \in 1..Len(security_events)} :
            Cardinality({i \in AlertsOf(drift_alerts, p) : drift_alerts[i].timestamp = t})
                = Cardinality({i \in DriftEventsOf(security_events, p) :
                                  security_events[i].timestamp = t})

\* C5 witness: the daemon died in a detection step after the INSERT of an alert
\* that was never committed
C5_Witness ==
    /\ pc = "CRASHED"
    /\ Len(drifts) > Len(drift_alerts)

\* C6: every stored SecurityEvent has a severity among info, warning, critical.
C6_SeverityInRange ==
    \A i \in 1..Len(security_events) :
        security_events[i].severity \in {"info", "warning", "critical"}

\* C7: a scan of openclaw.json whose baseline is {"auth":{"enabled":true}} and
\* whose content is {"auth":{"enabled":false}} carries exactly one change:
\* modified, at auth.enabled, from true to false.
C7_ScanAttachesFieldDiff ==
    (/\ lastOp.op = "scan"
     /\ get_baseline_hash("openclaw.json") = sha256(DocAuthOn)
     /\ fs["openclaw.json"] = Present(DocAuthOff, "644")) =>
        \E i \in 1..Len(lastOp.files) :
            /\ lastOp.files[i] = "openclaw.json"
            /\ "changes" \in DOMAIN lastOp.result.details[i]
            /\ lastOp.result.details[i].changes =
                   <<[type |-> "modified", path |-> <<"auth", "enabled">>,
                      old_value |-> Scalar("true"), new_value |-> Scalar("false")]>>

\* C8: a monitored file that cannot be read (missing, or present and unreadable) is
\* reported by a scan as missing or no_baseline, never as drift, and never makes
\* the daemon's drift scan fail.
C8_UnreadableHandledLocally ==
    /\ lastOp.op = "scan" =>
           \A i \in 1..Len(lastOp.files) :
               ~Readable(lastOp.files[i]) =>
                   lastOp.result.details[i].status \in {"missing", "no_baseline"}
    /\ pc = "FAILED" => used.faults > 0

\* C9: a failed write of the store in SCAN_DRIFT or in SCAN_LOGS ends the loop:
\* the step in which the write fails leaves the daemon ended.
C9_StoreErrorEndsLoop ==
    [][(pc \in {"SCAN_DRIFT", "SCAN_LOGS"} /\ used'.faults > used.faults)
          => Terminated']_vars

LoopEdges ==
    {<<"INIT", "BASELINE_ESTABLISHED">>, <<"BASELINE_ESTABLISHED", "INITIAL_AUDIT">>,
     <<"INITIAL_AUDIT", "SCAN_DRIFT">>, <<"SCAN_DRIFT", "SCAN_LOGS">>,
     <<"SCAN_LOGS", "AGGREGATE">>, <<"AGGREGATE", "PUBLISH">>, <<"PUBLISH", "SLEEP">>,
     <<"SLEEP", "SCAN_DRIFT">>}

AuditEvents(events) ==
    {i \in 1..Len(events) : events[i].event_type = "security_audit"}

ScanEvents(events) ==
    {i \in 1..Len(events) : events[i].event_type \in {"config_drift", "injection_attempt"}}

\* C10: the loop moves INIT -> BASELINE_ESTABLISHED -> INITIAL_AUDIT -> (SCAN_DRIFT
\* -> SCAN_LOGS -> AGGREGATE -> PUBLISH -> SLEEP)* and leaves this path only to
\* end; baselines are stored only by the first step and the audit event only by
\* the second, drift records only in SCAN_DRIFT and injection events only in
\* SCAN_LOGS; the snapshot a cycle publishes counts every event stored so far.
C10_StepOrder ==
    [][/\ pc' # pc =>
             \/ <<pc, pc'>> \in LoopEdges
             \/ pc' \in {"STOPPED", "FAILED", "ABORTED", "INTERRUPTED", "CRASHED"}
       /\ (\E i \in 1..Len(config_history') :
              i > Len(config_history) /\ config_history'[i].change_type = "baseline")
             => pc = "INIT"
       /\ AuditEvents(security_events') # AuditEvents(security_events) =>
             /\ pc = "BASELINE_ESTABLISHED" /\ pc' = "INITIAL_AUDIT"
             /\ AuditEvents(security_events) = {}
       /\ Len(drift_alerts') # Len(drift_alerts) => pc = "SCAN_DRIFT"
       /\ ScanEvents(security_events') # ScanEvents(security_events) =>
             pc \in {"SCAN_DRIFT", "SCAN_LOGS"}
       /\ (pc = "SCAN_DRIFT" /\ pc' = "SCAN_LOGS") =>
             Cardinality(AuditEvents(security_events)) = 1
       /\ (pc = "PUBLISH" /\ pc' = "SLEEP") =>
             /\ snapshot'.state = "complete"
             /\ snapshot'.doc.health.status # "error" =>
                    snapshot'.doc.health.unresolved_alerts = Len(security_events)
             /\ snapshot'.doc.drift >=
                    Cardinality({i \in 1..Len(drift_alerts) : ~drift_alerts[i].acknowledged})]_vars

\* C10 witness: the second cycle has published a snapshot that counts a drift
C10_Witness ==
    /\ pc = "SLEEP"
    /\ cycle = 2
    /\ snapshot.state = "complete"
    /\ snapshot.doc.drift >= 2

\* C11: a stop signal delivered to a running monitor, also during baseline
\* establishment or the initial audit, leaves it STOPPED with the store closed.
C11_StopReachesStopped ==
    pc \in {"STOPPED", "INTERRUPTED"} => (pc = "STOPPED" /\ ~db_open)

\* C12: the loop is stopped only from its sleep: a cycle that has started is not
\* left for STOPPED before it has published.
C12_StopOnlyInSleep ==
    [][pc' = "STOPPED" /\ pc # "STOPPED" => pc = "SLEEP"]_vars

\* the failure of the step was caught inside get_system_health, which reports it
\* as the status of the document
CaughtByHealthCheck ==
    pc = "AGGREGATE" /\ metrics' # NoMetrics /\ metrics'.health.status = "error"

\* a step of the loop body in which a failure with no handler of its own is
\* raised: a store or I/O fault outside the log scan and the health check, or the
\* TypeError of detect_drift
UnhandledFailure ==
    \/ /\ pc \in {"SCAN_DRIFT", "AGGREGATE", "PUBLISH"}
       /\ used'.faults > used.faults
       /\ ~CaughtByHealthCheck
    \/ /\ pc = "SCAN_DRIFT"
       /\ Raises(detect_drift(1, now))
       /\ pc' \notin {"SCAN_DRIFT", "STOPPED", "CRASHED"}

\* C13: an unhandled failure inside the loop body ends the loop with the store
\* closed; nothing is retried: the failing step stores nothing after the failure
\* and no step follows it.
C13_FailurePropagates ==
    [][/\ UnhandledFailure => (pc' = "FAILED" /\ ~db_open')
       /\ pc = "FAILED" =>
             /\ ~db_open
             /\ pc' = "FAILED"
             /\ UNCHANGED <<store_vars, snapshot, cycle>>]_vars

\* C13 witness: the second cycle failed after the first had stored its records
C13_Witness ==
    /\ pc = "FAILED"
    /\ ~db_open
    /\ cycle = 2
    /\ Len(security_events) >= 2

\* C14: unless it is stopped or fails, the loop goes from every cycle to the next
\* one, whatever the cycle found: a sleeping daemon can always wake up, it wakes
\* up into a drift scan exactly one sleep interval later, and every cycle that
\* starts is followed by the next cycle or by the end of the daemon.
C14_CyclesRepeat ==
    /\ [][/\ (pc = "SLEEP" /\ cycle < MaxCycles) => ENABLED WakeUp
          /\ (pc = "SLEEP" /\ pc' # pc) =>
                \/ pc' = "SCAN_DRIFT" /\ now' = now + SleepTicks /\ cycle' = cycle + 1
                \/ pc' \in {"STOPPED", "CRASHED"}]_vars
    /\ \A c \in 1..(MaxCycles - 1) :
          (pc = "SCAN_DRIFT" /\ cycle = c)
              ~> ((pc = "SCAN_DRIFT" /\ cycle = c + 1) \/ Terminated)

\* C14 witness: a cycle that found a drift and injection matches is followed by
\* the next cycle
C14_Witness ==
    /\ pc = "SCAN_DRIFT"
    /\ cycle = 2
    /\ drift_alerts # <<>>
    /\ \E i \in 1..Len(security_events) :
           security_events[i].event_type = "injection_attempt"

\* C15: a reader of web/metrics.json never finds it empty or partly written: the
\* file is absent (never published) or holds a complete snapshot.
C15_SnapshotAlwaysComplete == snapshot.state \in {"absent", "complete"}

\* the events of a group written after (or: not before) the moment t
EventsSince(events, g, t, strictly) ==
    {i \in 1..Len(events) :
        /\ <<events[i].event_type, events[i].severity>> = g
        /\ IF strictly THEN events[i].timestamp > t ELSE events[i].timestamp >= t}

Groups(events) ==
    {<<events[i].event_type, events[i].severity>> : i \in 1..Len(events)}

\* C16: the aggregate counts, per (event_type, severity), the events of the last
\* 24 hours: every event less than 24 hours old and no event more than 24 hours old.
C16_EventsOfLast24h ==
    [][(pc = "AGGREGATE" /\ pc' = "PUBLISH") =>
          \A g \in Groups(security_events) :
              LET counted == IF g \in DOMAIN metrics'.events
                             THEN metrics'.events[g] ELSE 0
              IN  /\ counted >= Cardinality(EventsSince(security_events, g,
                                                        now - TicksPerDay, TRUE))
                  /\ counted <= Cardinality(EventsSince(security_events, g,
                                                        now - TicksPerDay, FALSE))]_vars

FlagOn(section) ==
    /\ fs["openclaw.json"].exists
    /\ fs["openclaw.json"].content \in
           (IF section = "authentication" THEN {DocSecure, DocAuthOnly} ELSE {DocSecure})

\* the sensitive files whose mode is not exactly 600
NotOwnerOnly == {p \in {".env", "openclaw.json", "SOUL.md"} :
                    fs[p].exists /\ fs[p].mode # "600"}

Penalty(failed) == IF failed THEN 20 ELSE 0

\* the audit has just stored its event
AuditStep == pc = "BASELINE_ESTABLISHED" /\ pc' = "INITIAL_AUDIT"

\* C18: the score of an audit is 100 - 10 per sensitive file whose mode is not 600
\* - 20 if the authentication flag is disabled or absent - 20 if the injection
\* defense flag is disabled or absent, with one issue per failing check.
C18_AuditScore ==
    [][AuditStep =>
          LET result == security_events'[Len(security_events')].metadata
              failing == Cardinality(NotOwnerOnly)
                             + (IF FlagOn("authentication") THEN 0 ELSE 1)
                             + (IF FlagOn("prompt_injection_defense") THEN 0 ELSE 1)
          IN  /\ result.score = 100 - 10 * Cardinality(NotOwnerOnly)
                                    - Penalty(~FlagOn("authentication"))
                                    - Penalty(~FlagOn("prompt_injection_defense"))
              /\ Len(result.issues) = failing
              /\ failing = 0 => (result.score = 100 /\ result.issues = <<>>)]_vars

OccursIgnoringCase(line, phrase) ==
    \E k \in 0..(Len(line) - Len(phrase)) :
        \A i \in 1..Len(phrase) : line[k + i].w = phrase[i].w

\* the events a step has appended
Appended(before, after) == SubSeq(after, Len(before) + 1, Len(after))

\* C20: a log scan whose writes succeed stores exactly one injection_attempt event
\* per (line, phrase) such that the phrase occurs in the line whatever its case:
\* k events for a line with k phrases, each with the 1-based number of the line,
\* an excerpt of at most 200 units and severity critical, and no other event.
C20_OneAlertPerLineAndPhrase ==
    [][(pc = "SCAN_LOGS" /\ pc' = "AGGREGATE" /\ used' = used) =>
          LET new == Appended(security_events, security_events')
              longest == Max({0} \cup {Len(logs[lf].lines) : lf \in LogFiles})
          IN  /\ \A i \in 1..Len(new) :
                    /\ new[i].event_type = "injection_attempt"
                    /\ new[i].severity = "critical"
                    /\ new[i].metadata.severity = "critical"
                    /\ Len(new[i].metadata.excerpt) <= 200
                    /\ new[i].metadata.line_number \in 1..longest
                    /\ \E p \in 1..Len(injection_patterns) :
                           new[i].metadata.pattern = injection_patterns[p]
              /\ \A n \in 1..longest : \A p \in 1..Len(injection_patterns) :
                    Cardinality({i \in 1..Len(new) :
                                    /\ new[i].metadata.line_number = n
                                    /\ new[i].metadata.pattern = injection_patterns[p]})
                      = Cardinality({lf \in LogFiles :
                                        /\ logs[lf].exists
                                        /\ n <= Len(logs[lf].lines)
                                        /\ OccursIgnoringCase(logs[lf].lines[n],
                                                              injection_patterns[p])})]_vars

\* C20 witness: an upper-case line matched once, the next line matched by two
\* phrases, and a long line of the other log stored with a cut excerpt
C20_Witness ==
    /\ pc = "AGGREGATE"
    /\ used.faults = 0
    /\ Len(security_events) = 5
    /\ security_events[2].metadata.line_number = 1
    /\ security_events[2].metadata.excerpt = LineInject
    /\ security_events[3].metadata.line_number = 2
    /\ security_events[4].metadata.line_number = 2
    /\ security_events[3].metadata.pattern # security_events[4].metadata.pattern
    /\ Len(security_events[5].metadata.excerpt) = 200

\* the entries of a change list, whatever their order
Entries(changes) == {changes[i] : i \in 1..Len(changes)}

Compared == lastOp.op = "compare"

\* C21: for every document D, _compare_dicts(D, D) is the empty list, at every
\* nesting depth
C21_NoDriftAgainstSelf ==
    Compared /\ lastOp.baseline = lastOp.current => lastOp.changes = <<>>

\* the entry the swapped comparison has to hold for the entry e
Mirror(e) ==
    CASE e.type = "added" ->
             [type |-> "removed", path |-> e.path, old_value |-> e.new_value]
      [] e.type = "removed" ->
             [type |-> "added", path |-> e.path, new_value |-> e.old_value]
      [] e.type = "modified" ->
             [type |-> "modified", path |-> e.path,
              old_value |-> e.new_value, new_value |-> e.old_value]

\* C22: for all documents A and B, diff(B, A) is the mirror of diff(A, B): the
\* same set of paths, added and removed exchanged with the same value, modified
\* with old_value and new_value swapped
C22_DiffMirrored ==
    Compared =>
        LET forward == lastOp.changes
            backward == compare_dicts(lastOp.current, lastOp.baseline, "")
        IN  /\ {e.path : e \in Entries(forward)} = {e.path : e \in Entries(backward)}
            /\ Entries(backward) = {Mirror(e) : e \in Entries(forward)}
            /\ Len(backward) = Len(forward)

\* a comparison that reports an added, a removed and a modified entry, one of
\* them below the top level
C22_Witness ==
    /\ Compared
    /\ {e.type : e \in Entries(lastOp.changes)} = {"added", "removed", "modified"}
    /\ \E e \in Entries(lastOp.changes) : e.path = "a.b"

\* the dotted paths of the keys below path
PathsBelow(path) == {current_path(path, DocKeys[i]) : i \in 1..Len(DocKeys)}

\* the value at key is a scalar in one document and a dict in the other
TypeChanged(baseline, current, key) ==
    /\ KeyIn(key, baseline) /\ KeyIn(key, current)
    /\ isinstance_dict(baseline.get[key]) # isinstance_dict(current.get[key])

\* C23: a key whose value changes type between a scalar and a nested document
\* yields a single modified entry at the key's path with the raw old and new
\* values and no entry below it; an empty baseline yields one added entry per
\* top-level key of current and nothing else, an empty current one removed entry
\* per top-level key of baseline and nothing else
C23_RecursesOnlyIntoTwoDicts ==
    Compared =>
        LET baseline == lastOp.baseline
            current == lastOp.current
            changes == lastOp.changes
        IN  /\ \A i \in 1..Len(DocKeys) :
                   TypeChanged(baseline, current, DocKeys[i]) =>
                       /\ Cardinality({n \in 1..Len(changes) :
                                          changes[n].path = DocKeys[i]}) = 1
                       /\ [type |-> "modified", path |-> DocKeys[i],
                            old_value |-> baseline.get[DocKeys[i]],
                            new_value |-> current.get[DocKeys[i]]] \in Entries(changes)
                       /\ \A e \in Entries(changes) :
                              e.path \notin PathsBelow(DocKeys[i])
            /\ Len(baseline.keys) = 0 =>
                   changes = [n \in 1..Len(current.keys) |->
                                 [type |-> "added", path |-> current.keys[n],
                                  new_value |-> current.get[current.keys[n]]]]
            /\ Len(current.keys) = 0 =>
                   changes = [n \in 1..Len(baseline.keys) |->
                                 [type |-> "removed", path |-> baseline.keys[n],
                                  old_value |-> baseline.get[baseline.keys[n]]]]

\* a scalar replaced by a dict that has keys of its own, next to a key that was
\* removed
C23_Witness ==
    /\ Compared
    /\ TypeChanged(lastOp.baseline, lastOp.current, "a")
    /\ isinstance_dict(lastOp.current.get["a"])
    /\ Len(lastOp.current.get["a"].keys) = 2
    /\ Len(lastOp.changes) = 2

\* the rows a step appends to config_history for the file p
NewHistoryRows(p) ==
    {i \in (Len(config_history) + 1)..Len(config_history') :
         config_history'[i].file_path = p}

\* establish_baseline has run to its end
BaselineStep == pc = "INIT" /\ pc' = "BASELINE_ESTABLISHED"

\* C24: baseline establishment appends exactly one baseline record with the
\* file's current fingerprint for each monitored file present on disk and
\* nothing for a missing file; a missing file does not abort it
C24_OneBaselinePerPresentFile ==
    [][BaselineStep =>
          /\ SubSeq(config_history', 1, Len(config_history)) = config_history
          /\ \A p \in Files :
                 IF exists(p)
                 THEN /\ Cardinality(NewHistoryRows(p)) = 1
                      /\ \A i \in NewHistoryRows(p) :
                             /\ config_history'[i].change_type = "baseline"
                             /\ config_history'[i].hash = sha256(fs[p].content)
                 ELSE NewHistoryRows(p) = {}]_vars

\* C25: config_history is append-only: no step of the daemon or of the CLI
\* changes or removes a record, and a record is created only by baseline
\* establishment (change_type baseline) or by an approve (approved_change)
C25_HistoryAppendOnly ==
    [][/\ Len(config_history') >= Len(config_history)
       /\ SubSeq(config_history', 1, Len(config_history)) = config_history
       /\ \A i \in (Len(config_history) + 1)..Len(config_history') :
              \/ /\ config_history'[i].change_type = "baseline"
                 /\ pc = "INIT"
                 /\ lastOp' = NoOp
              \/ /\ config_history'[i].change_type = "approved_change"
                 /\ Approved(lastOp')
                 /\ lastOp'.filepath = config_history'[i].file_path
                 /\ UNCHANGED pc]_vars

\* a file with a baseline record has been approved twice, and a scan has run since
C25_Witness ==
    /\ lastOp.op = "scan"
    /\ \E i1, i2, i3 \in 1..Len(config_history) :
           /\ i1 < i2 /\ i2 < i3
           /\ config_history[i1].change_type = "baseline"
           /\ config_history[i2].change_type = "approved_change"
           /\ config_history[i3].change_type = "approved_change"
           /\ config_history[i1].file_path = config_history[i2].file_path
           /\ config_history[i2].file_path = config_history[i3].file_path

\* the file is a .json file on disk whose content json.load rejects
Unparsable(p) ==
    endswith_json(p) /\ Readable(p) /\ json_load(fs[p].content) = ParseError

\* the newest baseline record of the file holds another fingerprint than the file
DiffersFromStoredBaseline(p) ==
    /\ exists(p)
    /\ Truthy(get_baseline_hash(p))
    /\ get_baseline_hash(p) # calculate_hash(p)

\* C26: when the content of a structured file cannot be parsed the scan still
\* returns: the file's change list is empty, and the file is reported as
\* drift_detected and counted in files_with_drift whenever its fingerprint
\* differs from the baseline
C26_UnparsableStillDrift ==
    lastOp.op = "scan" =>
        /\ \A i \in 1..Len(lastOp.files) :
               LET p == lastOp.files[i]
                   detail == lastOp.result.details[i]
               IN  Unparsable(p) /\ DiffersFromStoredBaseline(p) =>
                       /\ detail.filepath = p
                       /\ detail.status = "drift_detected"
                       /\ detail.changes = <<>>
        /\ lastOp.result.files_with_drift =
               Cardinality({i \in 1..Len(lastOp.files) :
                               DiffersFromStoredBaseline(lastOp.files[i])})

\* a scan of openclaw.json after its content was replaced by text that is not JSON
C26_Witness ==
    /\ lastOp.op = "scan"
    /\ Unparsable("openclaw.json")
    /\ DiffersFromStoredBaseline("openclaw.json")
    /\ lastOp.result.files_with_drift = 1

\* the channels send_alert has to call for a severity, in order
ExpectedChannels(severity) ==
    CASE severity = "critical" -> <<"email", "slack", "discord", "sms">>
      [] severity = "warning" -> <<"email", "slack", "discord">>
      [] OTHER -> <<"slack", "discord">>

\* C27: send_alert calls the channels its severity selects, in order (critical:
\* email, Slack, Discord, SMS; warning: email, Slack, Discord; otherwise Slack,
\* Discord); a disabled channel and a failed delivery return False, no exception
\* leaves send_alert and every selected channel is called
C27_ChannelsIsolated ==
    lastOp.op = "send_alert" =>
        /\ ~lastOp.raised
        /\ [i \in 1..Len(lastOp.calls) |-> lastOp.calls[i].channel]
               = ExpectedChannels(lastOp.severity)
        /\ \A i \in 1..Len(lastOp.calls) :
               /\ lastOp.calls[i].result \in {"True", "False"}
               /\ (~lastOp.calls[i].enabled \/ lastOp.calls[i].delivery = "exception")
                      => lastOp.calls[i].result = "False"

\* a critical alert whose email delivery fails and whose Slack channel is
\* disabled, and that is delivered by SMS
C27_Witness ==
    /\ lastOp.op = "send_alert"
    /\ lastOp.severity = "critical"
    /\ Len(lastOp.calls) = 4
    /\ lastOp.calls[1].enabled /\ lastOp.calls[1].delivery = "exception"
    /\ ~lastOp.calls[2].enabled
    /\ lastOp.calls[4].result = "True"

\* the published snapshot is a whole document that reports the status critical
PublishedCritical ==
    snapshot.state = "complete" /\ snapshot.doc.health.status = "critical"

\* C28: no step of the daemon or of the CLI resolves or deletes a security
\* event, so the number of unresolved events never decreases; and the document
\* that replaces a published snapshot reporting critical reports critical too
C28_CriticalStays ==
    [][/\ Len(security_events') >= Len(security_events)
       /\ SubSeq(security_events', 1, Len(security_events)) = security_events
       /\ \A i \in 1..Len(security_events') : ~security_events'[i].resolved
       /\ (PublishedCritical /\ pc = "PUBLISH" /\ snapshot' # snapshot)
              => metrics.health.status = "critical"]_vars

\* a SCAN_DRIFT step that runs to its end
DriftScanStep == pc = "SCAN_DRIFT" /\ pc' = "SCAN_LOGS"

\* C29: drift is reported again in every cycle: each SCAN_DRIFT step that runs
\* to its end adds, for every file whose content differs from the baseline, one
\* new unacknowledged DriftAlert and one new config_drift event to the ones the
\* file has already, so n cycles after one change the file has n alerts
C29_DriftReportedEveryCycle ==
    [][DriftScanStep =>
          /\ SubSeq(drift_alerts', 1, Len(drift_alerts)) = drift_alerts
          /\ SubSeq(security_events', 1, Len(security_events)) = security_events
          /\ \A p \in Files :
                 Differs(p) =>
                     /\ Cardinality(AlertsOf(drift_alerts', p))
                            = Cardinality(AlertsOf(drift_alerts, p)) + 1
                     /\ Cardinality(Unacknowledged(drift_alerts', p))
                            = Cardinality(Unacknowledged(drift_alerts, p)) + 1
                     /\ Cardinality(DriftEventsOf(security_events', p))
                            = Cardinality(DriftEventsOf(security_events, p)) + 1
                     /\ \E i \in (Len(drift_alerts) + 1)..Len(drift_alerts') :
                            /\ drift_alerts'[i].file_path = p
                            /\ drift_alerts'[i].timestamp = now
                            /\ drift_alerts'[i].expected_hash = baseline_hashes[p]
                            /\ drift_alerts'[i].actual_hash = sha256(fs[p].content)]_vars

\* one change of a file, made before the first cycle, has two unacknowledged
\* alerts with the same hashes after the drift scan of the second cycle
C29_Witness ==
    /\ pc = "SCAN_LOGS" /\ cycle = 2 /\ used.env = 1
    /\ \E p \in Files :
           /\ Differs(p)
           /\ Cardinality(Unacknowledged(drift_alerts, p)) = 2
           /\ \A i, j \in AlertsOf(drift_alerts, p) :
                  /\ drift_alerts[i].actual_hash = drift_alerts[j].actual_hash
                  /\ i # j => drift_alerts[i].timestamp # drift_alerts[j].timestamp

\* the (log, line, phrase) matches of the logs as they are
LogMatches ==
    {<<lf, n, p>> \in LogFiles \X (1..Max({0} \cup {Len(logs[f].lines) : f \in LogFiles}))
                        \X (1..Len(injection_patterns)) :
        /\ logs[lf].exists
        /\ n <= Len(logs[lf].lines)
        /\ OccursIgnoringCase(logs[lf].lines[n], injection_patterns[p])}

InjectionEvents(events) ==
    {i \in 1..Len(events) : events[i].event_type = "injection_attempt"}

\* C30: every SCAN_LOGS step reads each log from its first line: a step whose
\* writes succeed stores one injection_attempt event per match of the logs,
\* whatever the store holds already, so while the logs do not change and no
\* write fails the store holds n * m events after n cycles
C30_LogsRescannedEveryCycle ==
    [][/\ (pc = "SCAN_LOGS" /\ pc' = "AGGREGATE" /\ used' = used) =>
              /\ SubSeq(security_events', 1, Len(security_events)) = security_events
              /\ Cardinality(InjectionEvents(security_events'))
                     = Cardinality(InjectionEvents(security_events))
                           + Cardinality(LogMatches)
       /\ (used'.env = 0 /\ used'.faults = 0 /\ pc' \in {"AGGREGATE", "PUBLISH", "SLEEP"}) =>
              Cardinality(InjectionEvents(security_events'))
                  = cycle' * Cardinality(LogMatches')]_vars

\* the second scan of a log that has not changed stored its match a second time
C30_Witness ==
    /\ pc = "AGGREGATE" /\ cycle = 2
    /\ used.env = 0 /\ used.faults = 0
    /\ Cardinality(LogMatches) = 1
    /\ Cardinality(InjectionEvents(security_events)) = 2
    /\ \A i, j \in InjectionEvents(security_events) :
           /\ security_events[i].metadata.line_number = security_events[j].metadata.line_number
           /\ security_events[i].metadata.pattern = security_events[j].metadata.pattern

\* the scores an audit can return: 30, 40, ..., 100
AuditScores == {10 * k : k \in 3..10}

\* C31: the score run_audit returns is one of 30, 40, ..., 100 on every
\* filesystem and configuration: never negative, never above 100, a multiple of
\* 10, although the code does not clamp it.
C31_ScoreRange ==
    [][AuditStep =>
          LET score == security_events'[Len(security_events')].metadata.score
          IN  /\ score \in AuditScores
              /\ score >= 0 /\ score <= 100 /\ score % 10 = 0]_vars

\* C31 witness: an audit that applied all five penalties and returned 30
C31_Witness ==
    /\ pc = "INITIAL_AUDIT"
    /\ \A p \in Files : fs[p].exists /\ fs[p].mode = "644"
    /\ security_events[Len(security_events)].event_type = "security_audit"
    /\ security_events[Len(security_events)].metadata.score = 30
    /\ Len(security_events[Len(security_events)].metadata.issues) = 5

\* the daemon has established its baselines and has not ended
Running == ~Terminated /\ pc # "INIT"

\* detect_drift would report the file: it compares with the in-memory baseline map
DaemonReportsDrift(p) ==
    exists(p) /\ drift_condition(baseline_hashes[p], calculate_file_hash(p))

\* scan_all_monitored_files would report the file: it compares with the stored baseline
CliReportsDrift(p) == scan_detail(p).status = "drift_detected"

\* C32: the daemon and the CLI agree on drift.  Over file changes, approvals and
\* restarts of the daemon on one store, in every state in which the daemon runs
\* and for every readable monitored file, detect_drift reports a drift for the
\* file iff scan_all_monitored_files reports drift_detected for it.
C32_DaemonAndCliAgree ==
    Running => \A p \in Files :
                   Readable(p) => (DaemonReportsDrift(p) <=> CliReportsDrift(p))

\* C33: a monitored file that was absent when the daemon established its
\* baselines has no entry in the baseline map for the rest of that run, and no
\* step of that run stores a DriftAlert or a config_drift event for it, whatever
\* content it gets and however often it changes.
C33_AbsentAtBaselineNeverAlerts ==
    [][\A p \in Files :
          /\ (BaselineStep /\ ~exists(p)) => baseline_hashes'[p] = None
          /\ (Running /\ baseline_hashes[p] = None) =>
                 /\ baseline_hashes'[p] = None
                 /\ AlertsOf(drift_alerts', p) = AlertsOf(drift_alerts, p)
                 /\ DriftEventsOf(security_events', p) =
                        DriftEventsOf(security_events, p)]_vars

\* C33 witness: the daemon was started while openclaw.json was missing, the file
\* has appeared with a content other than its stored baseline, a drift scan of
\* this run is over and the file has no alert
C33_Witness ==
    /\ pc = "SCAN_LOGS"
    /\ Readable("openclaw.json")
    /\ baseline_hashes["openclaw.json"] = None
    /\ get_baseline_hash("openclaw.json") # None
    /\ get_baseline_hash("openclaw.json") # calculate_file_hash("openclaw.json")
    /\ AlertsOf(drift_alerts, "openclaw.json") = {}
    /\ DriftEventsOf(security_events, "openclaw.json") = {}

\* approve_drift(p) has just returned
ApproveStep(p) ==
    /\ used'.cli = used.cli + 1
    /\ lastOp'.op = "approve"
    /\ lastOp'.filepath = p

\* C34: when approve_drift(P) cannot compute P's fingerprint, because the file is
\* missing or unreadable, it returns an error result and leaves the store
\* unchanged: no DriftAlert is acknowledged and no config_history row is inserted.
C34_FailedApproveChangesNothing ==
    [][\A p \in Files :
          (ApproveStep(p) /\ ~Readable(p)) =>
              /\ DOMAIN lastOp'.result = {"error"}
              /\ drift_alerts' = drift_alerts
              /\ config_history' = config_history
              /\ security_events' = security_events]_vars

\* C34 witness: the approval of a file that is on disk but unreadable has failed
\* and the unacknowledged alerts of the file are still there
C34_Witness ==
    /\ lastOp.op = "approve"
    /\ DOMAIN lastOp.result = {"error"}
    /\ exists(lastOp.filepath)
    /\ ~Readable(lastOp.filepath)
    /\ Unacknowledged(drift_alerts, lastOp.filepath) # {}

\* generate_metrics has just returned
AggregateStep == pc = "AGGREGATE" /\ pc' = "PUBLISH"

\* C35: every daemon start appends a baseline record with the current
\* fingerprint of each present monitored file and acknowledges no DriftAlert;
\* from then on neither the daemon nor the CLI scan reports the file as drifted,
\* while the earlier alerts stay unacknowledged and are counted in the
\* unacknowledged drift count of the snapshot.
C35_RestartRebaselines ==
    [][/\ BaselineStep =>
             /\ drift_alerts' = drift_alerts
             /\ \A p \in Files :
                    exists(p) =>
                        /\ \E i \in NewHistoryRows(p) :
                               /\ config_history'[i].change_type = "baseline"
                               /\ config_history'[i].hash = sha256(fs[p].content)
                        /\ ~DaemonReportsDrift(p)'
                        /\ ~CliReportsDrift(p)'
       /\ AggregateStep =>
             metrics'.drift =
                 Cardinality(UNION {Unacknowledged(drift_alerts, p) : p \in Files})]_vars

====
